---------------------------- MODULE Spec2Model ----------------------------
(***************************************************************************)
(* Model of calvin_photo_sync_optimized.py: the trip segmenter             *)
(* (LocalTripDetector) and the staged sync pipeline                        *)
(* (OptimizedCalvinPhotoSync.run_optimized_sync).                          *)
(*                                                                         *)
(* Units.  A datetime is a whole number of hours since an epoch; a         *)
(* calendar date is datetime \div 24.  A GPS coordinate is a record        *)
(* [latitude, longitude, den]: the coordinate is latitude/den and          *)
(* longitude/den in tenths of a degree, so that the mean of integer        *)
(* coordinates is held exactly.  den = 0 is Python's None.  Every          *)
(* coordinate of the model lies on the equator (latitude 0), where the     *)
(* haversine formula reduces to R * (longitude difference folded into      *)
(* [0, 180] degrees), which integer arithmetic computes exactly.           *)
(* Distances are in metres.                                                *)
(***************************************************************************)
EXTENDS Integers, Sequences, FiniteSets, TLC

\* ------------------------------------------------------------------ bounds
MaxPhotos == 3
MaxInterrupts == 2
MaxDirs == 3
MaxNameLen == 3
MaxSpanDays == 9
MaxClock == 4

\* hours between consecutive records of a segmenter input: exactly
\* short_gap_hours, exactly long_gap_days, and just above long_gap_days
GapChoices == {8, 72, 73}
StartChoices == {8}
\* longitudes (tenths of a degree) of geotagged records
LonChoices == {0, 4, 1799, -1799}
MinPhotosChoices == {1, 2}
MinLocationPhotosChoices == {1, 2}

\* ------------------------------------------------------- program constants
short_gap_hours == 8
long_gap_days == 3
cluster_radius_km == 50
R == 6371

None == [latitude |-> 0, longitude |-> 0, den |-> 0]
Coord(lon) == [latitude |-> 0, longitude |-> lon, den |-> 1]
Inf == 1000000000
max_scan_depth == 10
\* should_sync_device: 3600 seconds, in the half hours of `now`
Hour == 2

Abs(x) == IF x < 0 THEN -x ELSE x

VARIABLES
    config,           \* trip_detection configuration in force
    photos_metadata,  \* segmenter: the time-sorted input list
    i,                \* segmenter: loop index (1-based position of current_photo)
    current_trip,     \* segmenter: the accumulator
    trips,            \* segmenter: the trips finalized so far
    seg_pc,           \* segmenter: "loop" | "done"
    dropped           \* segmenter (history): paths of the records of dropped accumulators

segvars == <<config, photos_metadata, i, current_trip, trips, seg_pc, dropped>>

VARIABLES
    \* the world outside the process
    source_files,     \* eligible media files on the source volume (one photo directory)
    device_ok,        \* the source device's path exists
    destination_ok,   \* the destination root exists
    staging_exists,   \* "Photo Staging" exists
    staging,          \* media files in "Photo Staging"
    staging_manifest, \* STAGING_MANIFEST.txt: [exists, files]
    new_photos,       \* files under "New Photos": pairs <<trip folder name, file>>
    upload_manifest,  \* New Photos/UPLOAD_MANIFEST.txt: [exists, files]
    uploaded_photos,  \* files under "Uploaded Photos": pairs <<trip folder name, file>>
    archive_manifest, \* Uploaded Photos/ARCHIVE_MANIFEST.txt: [exists, files]
    \* the process (one OptimizedCalvinPhotoSync object and its run_optimized_sync call)
    pc,               \* position in run_optimized_sync
    dry_run,          \* self.dry_run
    stats,            \* self.stats
    copy_todo,        \* copy_all_photos: files of the directory not yet visited
    total_copied,     \* copy_all_photos: total_copied
    copied_files,     \* copy_all_photos: copied_files
    organize_todo,    \* analyze_and_organize_photos: moves still to make, in order
    organized_photos, \* organized_files / organized_photos: sequence of <<trip name, file>>
    upload_success,   \* "none" | "True" | "False"
    result,           \* return value of run_optimized_sync: "none" | "True" | "False"
    \* history
    executed,         \* phases entered by the current run
    start_staging,    \* media files in staging when the current run started
    ever_staged,      \* files that some run copied into staging
    kills,            \* number of runs interrupted so far
    killed_in,        \* pc at which the last interrupted run was killed
    killed_todo,      \* the moves that run had planned and not yet made
    tool_invoked,     \* the current run started the Immich CLI
    reported          \* the current run called report_results

VARIABLES
    \* FastScanner.copy_all_photos followed on its own arguments
    photo_dirs,           \* the discovered directories: each a list of [stem, size]
    batch_size,           \* config['scanning']['batch_size']
    max_photos,           \* the max_photos argument; 0 is None
    stager_dry_run,       \* the dry_run argument
    staging_path,         \* the staging directory: file name -> size
    dir_idx,              \* position of photo_dir in photo_dirs
    batch_i,              \* i of the batch loop (0-based offset of the batch)
    batch_k,              \* position of photo_file in the batch (0-based)
    stager_total_copied,  \* total_copied
    stager_copied_files,  \* copied_files
    stager_manifest,      \* STAGING_MANIFEST.txt: [exists, files]
    stager_pc             \* "loop" | "manifest" | "done"

stagervars == <<photo_dirs, batch_size, max_photos, stager_dry_run, staging_path,
                dir_idx, batch_i, batch_k, stager_total_copied, stager_copied_files,
                stager_manifest, stager_pc>>

VARIABLES
    \* create_manifest and verify_against_manifest followed on one directory
    directory,        \* names of the files in the directory
    manifest_file,    \* the manifest: [exists, lines], a line a sequence of characters
    recorded,         \* (history) names of the files given to create_manifest
    ledger_errors,    \* entries verify_against_manifest appended to stats['errors']
    verify_result,    \* return value of verify_against_manifest: "none" | "True" | "False"
    ledger_pc         \* "record" | "recorded" | "done"

ledgervars == <<directory, manifest_file, recorded, ledger_errors, verify_result, ledger_pc>>

VARIABLES
    \* FastScanner.find_all_directories_with_photos followed on one source tree
    dir_files,        \* the source tree: directory -> the files in it
    scan_stack,       \* directories whose scan_directory call is still to come, in order
    attempt,          \* attempt of the retry loop at the head of scan_stack
    found_photo_dirs, \* photo_dirs
    skipped_dirs,     \* skipped_dirs
    attempts_made,    \* (history) directory -> number of listings attempted
    listed,           \* (history) directories whose listing succeeded, with the attempt
    scan_pc           \* "scan" | "done"

scanvars == <<dir_files, scan_stack, attempt, found_photo_dirs, skipped_dirs,
              attempts_made, listed, scan_pc>>

VARIABLES
    \* LocalTripDetector.get_trip_info, called on one trip
    named_trip,       \* the trip_data passed in
    trip_name,        \* the 'name' of the dictionary returned
    name_pc           \* "call" | "done"

namevars == <<named_trip, trip_name, name_pc>>

VARIABLES
    \* SmartPhotoSync.smart_sync
    smart_walk,        \* the eligible and other files os.walk yields, in order: <<dir, name>>
    smart_uploaded,    \* the names of the files under Uploaded Photos
    smart_manifest,    \* the lines of <destination>/ARCHIVE_MANIFEST.txt
    archive_written,   \* the names in Uploaded Photos/ARCHIVE_MANIFEST.txt, which Archive writes
    smart_device_ok,   \* the device path exists
    smart_dry_run,
    calvin_files,      \* dict: upper-cased name -> path
    missing_files,     \* dict: upper-cased name -> path
    smart_todo,        \* the keys of missing_files the copy loop has not reached
    smart_staging,     \* Photo Staging: [exists, files], a file <<name, copied from>>
    smart_result,      \* "none" | "True" | "False"
    smart_pc           \* "start" | "analysed" | "copy" | "done"

smartvars == <<smart_walk, smart_uploaded, smart_manifest, archive_written, smart_device_ok,
               smart_dry_run, calvin_files, missing_files, smart_todo,
               smart_staging, smart_result, smart_pc>>

VARIABLES
    \* analyze_and_organize_photos after the grouping, and the count of trips
    trip_folders,        \* the folder name of each trip, in the order of trips
    org_files,           \* organized_files: <<folder, file>>
    org_trips_detected,  \* stats['trips_detected']
    org_pc               \* "group" | "done"

orgvars == <<trip_folders, org_files, org_trips_detected, org_pc>>

VARIABLES
    \* find_source_device, and EnhancedDeviceMonitor with its main()
    source_devices,    \* config['source_devices']: the configured names, in dict order
    connected,         \* the configured devices whose path exists and can be listed
    device_name,       \* the name passed to run_optimized_sync ("None": none passed)
    source_path,       \* what find_source_device returned: "unset" | "None" | the device
    known_devices,     \* EnhancedDeviceMonitor.known_devices
    last_sync_times,   \* EnhancedDeviceMonitor.last_sync_times: device -> start time
    sync_history_file, \* ~/.calvin_sync_history.json: device -> start time
    now,               \* datetime.now(), in half hours
    new_devices,       \* the devices the loop of start_monitoring still has to visit
    start_time,        \* start_time of the run_sync_for_device call in progress
    old_time,          \* old_time of --force-sync: the set holding the time removed
    sync_result,       \* what the last run_sync_for_device call returned
    mode,              \* the command line: "monitor" | "force-sync" | "run"
    daemon_pc          \* "find" | "check" | "visit" | "run" | "sleep" | "exit"

daemonvars == <<source_devices, connected, device_name, source_path, known_devices,
                last_sync_times, sync_history_file, now, new_devices, start_time,
                old_time, sync_result, mode, daemon_pc>>

VARIABLES
    \* the environment of the process, fixed through a behaviour
    notifier,         \* osascript: "ok" | "exit non-zero" | "absent" | "disabled"
    io_faults,        \* file operations under the destination root can fail
    mixed_case,       \* the files whose extension is spelled in mixed case (IMG.Jpg)
    \* history
    failed            \* the component failures that happened in the current run

envvars == <<notifier, io_faults, mixed_case>>

fsvars == <<source_files, staging_exists, staging, staging_manifest, new_photos,
            upload_manifest, uploaded_photos, archive_manifest>>
runvars == <<device_ok, destination_ok, pc, dry_run, stats, copy_todo, total_copied,
             copied_files, organize_todo, organized_photos, upload_success, result>>
histvars == <<executed, start_staging, ever_staged, kills, killed_in, killed_todo,
              tool_invoked, reported>>
syncvars == <<fsvars, runvars, histvars, envvars, failed>>
vars == <<segvars, syncvars, stagervars, ledgervars, scanvars, namevars, smartvars, orgvars, daemonvars>>

\* ------------------------------------------------------------ segmenter
\* calculate_distance_km on the equator, in metres.  sin^2(dlon/2) has period
\* 360 degrees in dlon, so the central angle is |dlon| folded into [0, 180].
\* pi is taken as 355/113.
calculate_distance_km(gps1, gps2) ==
    IF gps1.den = 0 \/ gps2.den = 0 THEN Inf
    ELSE LET den  == gps1.den * gps2.den
             dlon == Abs(gps2.longitude * gps1.den - gps1.longitude * gps2.den)
             fold == IF dlon > 1800 * den THEN 3600 * den - dlon ELSE dlon
             \* metres = R * 1000 * (355/113) * fold / (1800 * den), computed
             \* without leaving 32-bit integers
             a    == R * 355 * 5
             b    == 9 * 113 * den
         IN  (a \div b) * fold + (((a % b) * fold) \div b)

RECURSIVE SumLon(_)
SumLon(coords) ==
    IF coords = <<>> THEN 0
    ELSE Head(coords).longitude + SumLon(Tail(coords))

RECURSIVE SumLat(_)
SumLat(coords) ==
    IF coords = <<>> THEN 0
    ELSE Head(coords).latitude + SumLat(Tail(coords))

HasGps(p) == p.gps.den # 0

GpsCoords(photos) == SelectSeq(photos, HasGps)

\* the mean of the trip's coordinates (avg_lat, avg_lon)
TripCenter(trip_gps_coords) ==
    [latitude  |-> SumLat(trip_gps_coords),
     longitude |-> SumLon(trip_gps_coords),
     den       |-> Len(trip_gps_coords)]

detect_location_change(cfg, current_trip_photos, new_photo) ==
    IF ~cfg.gps_enabled \/ ~HasGps(new_photo) THEN FALSE
    ELSE LET trip_gps_coords == [k \in 1..Len(GpsCoords(current_trip_photos)) |->
                                    GpsCoords(current_trip_photos)[k].gps]
         IN  IF Len(trip_gps_coords) < cfg.min_location_photos THEN FALSE
             ELSE calculate_distance_km(TripCenter(trip_gps_coords), new_photo.gps)
                     > cluster_radius_km * 1000

\* Decision without Rule 1 taking precedence when GPS clustering is enabled
Decision_GpsBeforeLongGap(cfg, cur_trip, prev_photo, current_photo) ==
    LET time_gap == current_photo.datetime - prev_photo.datetime
    IN  IF time_gap > short_gap_hours
        THEN IF cfg.gps_enabled
             THEN IF detect_location_change(cfg, cur_trip, current_photo)
                  THEN "Location change"
                  ELSE "Same location"
             ELSE IF time_gap > long_gap_days * 24 THEN "Long gap" ELSE "Time gap"
        ELSE "Continuing trip"

\* Decision with Rule 2 applying from exactly short_gap_hours on
Decision_ShortGapInclusive(cfg, cur_trip, prev_photo, current_photo) ==
    LET time_gap == current_photo.datetime - prev_photo.datetime
    IN  IF time_gap > long_gap_days * 24 THEN "Long gap"
        ELSE IF time_gap >= short_gap_hours
             THEN IF cfg.gps_enabled
                  THEN IF detect_location_change(cfg, cur_trip, current_photo)
                       THEN "Location change"
                       ELSE "Same location"
                  ELSE "Time gap"
             ELSE "Continuing trip"

\* the decision of one loop iteration: the reason string's kind
Decision(cfg, cur_trip, prev_photo, current_photo) ==
    LET time_gap == current_photo.datetime - prev_photo.datetime
    IN  IF time_gap > long_gap_days * 24 THEN "Long gap"
        ELSE IF time_gap > short_gap_hours
             THEN IF cfg.gps_enabled
                  THEN IF detect_location_change(cfg, cur_trip, current_photo)
                       THEN "Location change"
                       ELSE "Same location"
                  ELSE "Time gap"
             ELSE "Continuing trip"

should_start_new_trip(reason) == reason \in {"Long gap", "Location change", "Time gap"}

\* the loop body without "current_trip = [current_photo]": the accumulator
\* is kept when a new trip starts
LoopBody_NoReset(cfg, st, prev_photo, current_photo) ==
    LET reason == Decision(cfg, st.current_trip, prev_photo, current_photo)
    IN  [trips |-> IF should_start_new_trip(reason)
                      /\ Len(st.current_trip) >= cfg.min_photos_per_trip
                   THEN Append(st.trips, [photos |-> st.current_trip, reason |-> reason])
                   ELSE st.trips,
         current_trip |-> Append(st.current_trip, current_photo)]

\* one iteration of the for loop of group_photos_by_enhanced_trips
LoopBody(cfg, st, prev_photo, current_photo) ==
    LET reason == Decision(cfg, st.current_trip, prev_photo, current_photo)
    IN  IF should_start_new_trip(reason)
        THEN [trips |-> IF Len(st.current_trip) >= cfg.min_photos_per_trip
                        THEN Append(st.trips, [photos |-> st.current_trip, reason |-> reason])
                        ELSE st.trips,
              current_trip |-> <<current_photo>>]
        ELSE [trips |-> st.trips,
              current_trip |-> Append(st.current_trip, current_photo)]

\* AddLastTrip without the minimum-count test
AddLastTrip_NoMinimum(cfg, st) ==
    Append(st.trips, [photos |-> st.current_trip, reason |-> "Final trip"])

\* the code after the loop: "Add the last trip"
AddLastTrip(cfg, st) ==
    IF Len(st.current_trip) >= cfg.min_photos_per_trip
    THEN Append(st.trips, [photos |-> st.current_trip, reason |-> "Final trip"])
    ELSE st.trips

RECURSIVE LoopFrom(_, _, _, _)
LoopFrom(cfg, photos, k, st) ==
    IF k > Len(photos) THEN st
    ELSE LoopFrom(cfg, photos, k + 1, LoopBody(cfg, st, photos[k - 1], photos[k]))

\* the whole function, as the pipeline calls it
group_photos_by_enhanced_trips(cfg, photos) ==
    IF photos = <<>> THEN <<>>
    ELSE AddLastTrip(cfg, LoopFrom(cfg, photos, 2,
                                   [trips |-> <<>>, current_trip |-> <<photos[1]>>]))

\* ------------------------------------------------- segmenter, step by step
RECURSIVE Times(_, _)
Times(gaps, start) ==
    IF gaps = <<>> THEN <<>>
    ELSE <<start + Head(gaps)>> \o Times(Tail(gaps), start + Head(gaps))

GpsChoices == {None} \cup {Coord(l) : l \in LonChoices}

\* a time-sorted input: record k lies gaps[k] hours after record k-1
MkPhotos(gaps, gps) ==
    [k \in 1..Len(gaps) |->
        [path |-> k, datetime |-> Times(gaps, 0)[k], gps |-> gps[k]]]

GapSeqs(n) ==
    IF n = 0 THEN {<<>>}
    ELSE {<<s>> \o g : s \in StartChoices, g \in [1..(n - 1) -> GapChoices]}

Inputs ==
    UNION {{MkPhotos(g, c) : g \in GapSeqs(n), c \in [1..n -> GpsChoices]} : n \in 0..MaxPhotos}

Configs ==
    [min_photos_per_trip : MinPhotosChoices,
     gps_enabled         : BOOLEAN,
     min_location_photos : MinLocationPhotosChoices]

\* ------------------------------------------------------------- pipeline
\* The media files of the model and their embedded metadata: files 1 and 2
\* are short_gap_hours apart, file 3 follows more than long_gap_days later.
\* None of them carries a geotag.
Files == {1, 2, 3}
FileTime == <<8, 16, 89>>
FileGps == <<None, None, None>>

\* The counter in each file's name (IMG_000n.jpg): the camera's counter had
\* wrapped before file 3 was taken, so the latest file has the smallest name.
FileName == <<2, 3, 1>>

PhotoOf(f) == [path |-> f, datetime |-> FileTime[f], gps |-> FileGps[f]]

Manifest(names) == [exists |-> TRUE, files |-> names]
NoManifest == [exists |-> FALSE, files |-> {}]

\* Path.__lt__ on <<folder, file>>: the parts are compared in turn, the folder
\* name (which starts with the trip's start date, then its end date) first
PathBefore(p, q) ==
    \/ p[1][2] < q[1][2]
    \/ p[1][2] = q[1][2] /\ p[1][3] < q[1][3]
    \/ p[1] = q[1] /\ FileName[p[2]] < FileName[q[2]]

\* sorted(files)
RECURSIVE sorted(_)
sorted(files) ==
    IF files = {} THEN <<>>
    ELSE LET first == CHOOSE p \in files : \A q \in files \ {p} : PathBefore(p, q)
         IN  <<first>> \o sorted(files \ {first})

\* the staging directory as the folder of a path
StagingFolder == <<"YYYY-MM-DD", 0, 0, "None">>

\* create_manifest / create_staging_manifest in the pipeline: the names read
\* back from the file, and the file_path.name of its lines in written order
WrittenManifest(files) ==
    [exists  |-> TRUE,
     files   |-> {p[2] : p \in files},
     entries |-> [k \in 1..Cardinality(files) |-> FileName[sorted(files)[k][2]]]]

NewStats ==
    [photos_found |-> 0, photos_copied |-> 0, photos_organized |-> 0,
     photos_uploaded |-> 0, trips_detected |-> 0, errors |-> <<>>]

Err(kind, arg) == [kind |-> kind, arg |-> arg]

Min(S) == CHOOSE x \in S : \A y \in S : x <= y

\* photos_metadata.sort(key=lambda x: x['datetime']) over the files found
RECURSIVE SortByDatetime(_)
SortByDatetime(S) ==
    IF S = {} THEN <<>>
    ELSE LET f == CHOOSE x \in S : \A y \in S : FileTime[x] <= FileTime[y]
         IN  <<PhotoOf(f)>> \o SortByDatetime(S \ {f})

\* no reference point of get_location_name's table lies within its radius of
\* a point of the equator (the nearest, Hawaii, is 21.3 degrees north)
get_location_name(gps_coords) == "None"

MinTime(photos) == Min({photos[k].datetime : k \in 1..Len(photos)})
MaxTime(photos) == -Min({-photos[k].datetime : k \in 1..Len(photos)})

\* "Create base trip name" with the test days_span < 7
base_trip_name_Under7(start_date, end_date) ==
    LET days_span == (end_date - start_date) \div 24
    IN  IF start_date \div 24 = end_date \div 24
        THEN <<"YYYY-MM-DD", start_date \div 24, start_date \div 24>>
        ELSE IF days_span < 7
             THEN <<"YYYY-MM-DD to MM-DD", start_date \div 24, end_date \div 24>>
             ELSE <<"YYYY-MM-DD to YYYY-MM-DD", start_date \div 24, end_date \div 24>>

\* "Create base trip name": .date() is datetime \div 24, timedelta.days the
\* whole days elapsed
base_trip_name(start_date, end_date) ==
    LET days_span == (end_date - start_date) \div 24
    IN  IF start_date \div 24 = end_date \div 24
        THEN <<"YYYY-MM-DD", start_date \div 24, start_date \div 24>>
        ELSE IF days_span <= 7
             THEN <<"YYYY-MM-DD to MM-DD", start_date \div 24, end_date \div 24>>
             ELSE <<"YYYY-MM-DD to YYYY-MM-DD", start_date \div 24, end_date \div 24>>

\* get_trip_info(trip_data)['name']: <<format, start date, end date, location>>
get_trip_info(trip_data) ==
    LET photos     == trip_data.photos
        start_date == MinTime(photos)
        end_date   == MaxTime(photos)
        base       == base_trip_name(start_date, end_date)
        gps_photos == GpsCoords(photos)
        location   == IF Len(gps_photos) >= 5
                      THEN get_location_name(
                               TripCenter([k \in 1..Len(gps_photos) |-> gps_photos[k].gps]))
                      ELSE "None"
    IN  base \o <<location>>

\* the moves analyze_and_organize_photos makes, in order: <<trip folder, file>>
RECURSIVE Moves(_)
Moves(ts) ==
    IF ts = <<>> THEN <<>>
    ELSE LET name == get_trip_info(Head(ts))
             ph   == Head(ts).photos
         IN  [k \in 1..Len(ph) |-> <<name, ph[k].path>>] \o Moves(Tail(ts))

Range(seq) == {seq[k] : k \in 1..Len(seq)}
Names(pairs) == {p[2] : p \in pairs}

\* for name in sorted(missing): self.stats['errors'].append(f"Missing file: {name}")
RECURSIVE MissingErrors(_)
MissingErrors(missing) ==
    IF missing = {} THEN <<>>
    ELSE <<Err("Missing file", Min(missing))>> \o MissingErrors(missing \ {Min(missing)})

\* verify_against_manifest: the errors it appends
verify_against_manifest(current_names, manifest) ==
    IF ~manifest.exists THEN <<>>
    ELSE MissingErrors(manifest.files \ current_names)

\* staging_path.glob(f"*{ext}") and glob(f"*{ext.upper()}") over the extension
\* list: the matching is case-sensitive, so IMG.Jpg matches neither pattern
Globbed(files) == files \ mixed_case

\* the files the resume check and the staging globs find
ExistingPhotos == IF staging_exists THEN Globbed(staging) ELSE {}

\* if existing_photos and not self.dry_run: skip Phase 1
ShouldResume_IgnoresDryRun(existing_photos, dry) == existing_photos # {}

ShouldResume(existing_photos, dry) == existing_photos # {} /\ ~dry

\* Phase 4 entered on the inverted test of upload_success
ShouldArchive_OnFailure(success, dry) == success = "False" /\ ~dry

\* if upload_success and not self.dry_run: Phase 4
ShouldArchive_IgnoresUpload(success, dry) == ~dry

ShouldArchive_IgnoresDryRun(success, dry) == success = "True"

ShouldArchive(success, dry) == success = "True" /\ ~dry

\* if organized_photos or self.dry_run: Phase 3
ShouldUpload_Always(organized, dry) == TRUE

ShouldUpload(organized, dry) == organized # <<>> \/ dry

\* if not remaining_files and not any(staging_path.iterdir()): rmdir
ShouldRemoveStaging_WithManifest(remaining_files, manifest_there) == remaining_files = {}

ShouldRemoveStaging(remaining_files, manifest_there) ==
    remaining_files = {} /\ ~manifest_there

\* return len(self.stats['errors']) == 0
ReturnValue_AlwaysTrue(errors) == "True"

ReturnValue(errors) == IF Len(errors) = 0 THEN "True" ELSE "False"

SyncConfigs == {c \in Configs : c.gps_enabled /\ c.min_location_photos = 1}

\* the pipeline before the first run
PipelineStart ==
    /\ source_files \in SUBSET Files
    /\ device_ok = TRUE
    /\ destination_ok = TRUE
    /\ staging_exists = FALSE
    /\ staging = {}
    /\ staging_manifest = NoManifest
    /\ new_photos = {}
    /\ upload_manifest = NoManifest
    /\ uploaded_photos = {}
    /\ archive_manifest = NoManifest
    /\ pc = "init"
    /\ dry_run = FALSE
    /\ stats = NewStats
    /\ copy_todo = {}
    /\ total_copied = 0
    /\ copied_files = {}
    /\ organize_todo = <<>>
    /\ organized_photos = <<>>
    /\ upload_success = "none"
    /\ result = "none"
    /\ executed = {}
    /\ start_staging = {}
    /\ ever_staged = {}
    /\ kills = 0
    /\ killed_in = "none"
    /\ killed_todo = <<>>
    /\ tool_invoked = FALSE
    /\ reported = FALSE
    /\ failed = {}

\* the notification tool works and no file operation fails
NoFaults ==
    /\ notifier = "ok"
    /\ io_faults = FALSE

\* every extension is spelled all in lower case or all in upper case
PlainCase == mixed_case = {}

SyncInit == PipelineStart /\ NoFaults /\ PlainCase

SegIdle ==
    /\ photos_metadata = <<>>
    /\ i = 2
    /\ current_trip = <<>>
    /\ trips = <<>>
    /\ seg_pc = "done"
    /\ dropped = {}

\* copy_all_photos is not being followed on its own
StagerIdle ==
    /\ photo_dirs = <<>>
    /\ batch_size = 1
    /\ max_photos = 0
    /\ stager_dry_run = FALSE
    /\ staging_path = <<>>
    /\ dir_idx = 1
    /\ batch_i = 0
    /\ batch_k = 0
    /\ stager_total_copied = 0
    /\ stager_copied_files = <<>>
    /\ stager_manifest = NoManifest
    /\ stager_pc = "done"

\* no scan is being followed on its own
\* the empty dict of sync history
NoHistory == [d \in {} |-> 0]

DaemonIdle ==
    /\ source_devices = <<>>
    /\ connected = {}
    /\ device_name = "None"
    /\ source_path = "unset"
    /\ known_devices = {}
    /\ last_sync_times = NoHistory
    /\ sync_history_file = NoHistory
    /\ now = 0
    /\ new_devices = <<>>
    /\ start_time = 0
    /\ old_time = {}
    /\ sync_result = "none"
    /\ mode = "run"
    /\ daemon_pc = "exit"

OrgIdle ==
    /\ trip_folders = <<>>
    /\ org_files = {}
    /\ org_trips_detected = 0
    /\ org_pc = "done"

SmartIdle ==
    /\ smart_walk = <<>>
    /\ smart_uploaded = {}
    /\ smart_manifest = {}
    /\ archive_written = {}
    /\ smart_device_ok = TRUE
    /\ smart_dry_run = FALSE
    /\ calvin_files = <<>>
    /\ missing_files = <<>>
    /\ smart_todo = {}
    /\ smart_staging = [exists |-> FALSE, files |-> {}]
    /\ smart_result = "none"
    /\ smart_pc = "done"

NameIdle ==
    /\ named_trip = <<>>
    /\ trip_name = <<>>
    /\ name_pc = "done"

ScanIdle ==
    /\ dir_files = <<>>
    /\ scan_stack = <<>>
    /\ attempt = 0
    /\ found_photo_dirs = <<>>
    /\ skipped_dirs = <<>>
    /\ attempts_made = <<>>
    /\ listed = {}
    /\ scan_pc = "done"

\* no manifest is being followed on its own
LedgerIdle ==
    /\ directory = {}
    /\ manifest_file = [exists |-> FALSE, lines |-> <<>>]
    /\ recorded = {}
    /\ ledger_errors = {}
    /\ verify_result = "none"
    /\ ledger_pc = "done"

Init == config \in SyncConfigs /\ SegIdle /\ StagerIdle /\ LedgerIdle /\ ScanIdle /\ NameIdle /\ SmartIdle /\ OrgIdle /\ DaemonIdle /\ SyncInit

\* notify: how the call ends.  Notifications disabled: return at once; a
\* non-zero exit of osascript (CalledProcessError) is caught; osascript absent
\* from the system (FileNotFoundError) is not caught
notify(tool) == IF tool = "absent" THEN "raised" ELSE "returned"

\* a new process: OptimizedCalvinPhotoSync(dry_run).run_optimized_sync()
StartRun ==
    /\ pc \in {"init", "returned", "raised", "killed"}
    /\ \E d, dev, dest \in BOOLEAN :
          /\ dry_run' = d
          /\ device_ok' = dev
          /\ destination_ok' = dest
    /\ stats' = NewStats
    /\ copy_todo' = {}
    /\ total_copied' = 0
    /\ copied_files' = {}
    /\ organize_todo' = <<>>
    /\ organized_photos' = <<>>
    /\ upload_success' = "none"
    /\ result' = "none"
    /\ executed' = {}
    /\ start_staging' = ExistingPhotos
    /\ tool_invoked' = FALSE
    /\ reported' = FALSE
    /\ failed' = {}
    /\ pc' = "start"
    /\ UNCHANGED <<segvars, stagervars, ledgervars, scanvars, namevars, smartvars, orgvars, daemonvars, envvars,
                   fsvars, ever_staged, kills, killed_in, killed_todo>>

\* if not source_path: notify; return False
FatalNoDevice ==
    /\ pc = "start"
    /\ ~device_ok
    /\ result' = IF notify(notifier) = "raised" THEN result ELSE "False"
    /\ failed' = IF notify(notifier) = "raised" THEN failed \cup {"notify"} ELSE failed
    /\ pc' = notify(notifier)
    /\ UNCHANGED <<segvars, stagervars, ledgervars, scanvars, namevars, smartvars, orgvars, daemonvars, envvars,
                   fsvars, histvars, device_ok, destination_ok, dry_run, stats,
                   copy_todo, total_copied, copied_files, organize_todo,
                   organized_photos, upload_success>>

\* the run without the destination check: it goes on to Phase 1
FatalNoDestination_Continues ==
    /\ pc = "start"
    /\ device_ok
    /\ ~destination_ok
    /\ copy_todo' = source_files
    /\ executed' = executed \cup {"Copy"}
    /\ pc' = "copy"
    /\ UNCHANGED <<segvars, stagervars, ledgervars, scanvars, namevars, smartvars, orgvars, daemonvars, envvars, failed,
                   fsvars, start_staging, ever_staged, kills, killed_in, killed_todo, tool_invoked,
                   reported, device_ok, destination_ok, dry_run, stats,
                   total_copied, copied_files, organize_todo,
                   organized_photos, upload_success, result>>

\* if not destination_root.exists(): notify; return False
FatalNoDestination ==
    /\ pc = "start"
    /\ device_ok
    /\ ~destination_ok
    /\ result' = IF notify(notifier) = "raised" THEN result ELSE "False"
    /\ failed' = IF notify(notifier) = "raised" THEN failed \cup {"notify"} ELSE failed
    /\ pc' = notify(notifier)
    /\ UNCHANGED <<segvars, stagervars, ledgervars, scanvars, namevars, smartvars, orgvars, daemonvars, envvars,
                   fsvars, histvars, device_ok, destination_ok, dry_run, stats,
                   copy_todo, total_copied, copied_files, organize_todo,
                   organized_photos, upload_success>>

\* RESUMING: skip Phase 1
Resume ==
    /\ pc = "start"
    /\ device_ok /\ destination_ok
    /\ ShouldResume(ExistingPhotos, dry_run)
    /\ stats' = [stats EXCEPT !.photos_copied = Cardinality(ExistingPhotos)]
    /\ pc' = "organize"
    /\ UNCHANGED <<segvars, stagervars, ledgervars, scanvars, namevars, smartvars, orgvars, daemonvars, envvars, failed,
                   fsvars, histvars, device_ok, destination_ok, dry_run,
                   copy_todo, total_copied, copied_files, organize_todo,
                   organized_photos, upload_success, result>>

\* Phase 1, the scan finds no photo directory: notify; return True
ScanEmpty ==
    /\ pc = "start"
    /\ device_ok /\ destination_ok
    /\ ~ShouldResume(ExistingPhotos, dry_run)
    /\ source_files = {}
    /\ executed' = executed \cup {"Copy"}
    /\ result' = IF notify(notifier) = "raised" THEN result ELSE "True"
    /\ failed' = IF notify(notifier) = "raised" THEN failed \cup {"notify"} ELSE failed
    /\ pc' = notify(notifier)
    /\ UNCHANGED <<segvars, stagervars, ledgervars, scanvars, namevars, smartvars, orgvars, daemonvars, envvars,
                   fsvars, start_staging, ever_staged, kills, killed_in, killed_todo, tool_invoked, reported,
                   device_ok, destination_ok, dry_run, stats,
                   copy_todo, total_copied, copied_files, organize_todo,
                   organized_photos, upload_success>>

\* Phase 1, the scan finds the photo directory: copy_all_photos begins
ScanFound ==
    /\ pc = "start"
    /\ device_ok /\ destination_ok
    /\ ~ShouldResume(ExistingPhotos, dry_run)
    /\ source_files # {}
    /\ executed' = executed \cup {"Copy"}
    /\ staging_exists' = IF dry_run THEN staging_exists ELSE TRUE
    /\ copy_todo' = source_files
    /\ total_copied' = 0
    /\ copied_files' = {}
    /\ pc' = "copy"
    /\ UNCHANGED <<segvars, stagervars, ledgervars, scanvars, namevars, smartvars, orgvars, daemonvars, envvars, failed,
                   source_files, staging, staging_manifest, new_photos,
                   upload_manifest, uploaded_photos, archive_manifest,
                   start_staging, ever_staged, kills, killed_in, killed_todo, tool_invoked, reported,
                   device_ok, destination_ok, dry_run, stats, organize_todo,
                   organized_photos, upload_success, result>>

\* copy_all_photos: one file of the batch
CopyFile ==
    /\ pc = "copy"
    /\ \E f \in copy_todo :
          /\ copy_todo' = copy_todo \ {f}
          /\ IF dry_run
             THEN \* "Would copy"
                  /\ total_copied' = total_copied + 1
                  /\ copied_files' = copied_files \cup {f}
                  /\ UNCHANGED <<staging, ever_staged>>
             ELSE IF f \in staging
                  THEN \* same name, same size: "Skipped duplicate"
                       UNCHANGED <<total_copied, copied_files, staging, ever_staged>>
                  ELSE /\ staging' = staging \cup {f}
                       /\ ever_staged' = ever_staged \cup {f}
                       /\ total_copied' = total_copied + 1
                       /\ copied_files' = copied_files \cup {f}
    /\ UNCHANGED <<segvars, stagervars, ledgervars, scanvars, namevars, smartvars, orgvars, daemonvars, envvars, failed,
                   source_files, staging_exists, staging_manifest, new_photos,
                   upload_manifest, uploaded_photos, archive_manifest,
                   executed, start_staging, kills, killed_in, killed_todo, tool_invoked, reported,
                   device_ok, destination_ok, pc, dry_run, stats, organize_todo,
                   organized_photos, upload_success, result>>

\* copy_all_photos: after the loops, the staging manifest; back in the run
CopyDone ==
    /\ pc = "copy"
    /\ copy_todo = {}
    /\ staging_manifest' = IF copied_files # {} /\ ~dry_run
                           THEN WrittenManifest({<<StagingFolder, f>> : f \in copied_files})
                           ELSE staging_manifest
    /\ stats' = [stats EXCEPT !.photos_copied = total_copied]
    /\ pc' = "organize"
    /\ UNCHANGED <<segvars, stagervars, ledgervars, scanvars, namevars, smartvars, orgvars, daemonvars, envvars, failed,
                   source_files, staging_exists, staging, new_photos,
                   upload_manifest, uploaded_photos, archive_manifest, histvars,
                   device_ok, destination_ok, dry_run, copy_todo, total_copied,
                   copied_files, organize_todo, organized_photos, upload_success, result>>

\* Phase 2: analyze_and_organize_photos up to the trips and their folders
OrganizeStart ==
    /\ pc = "organize"
    /\ LET moves == Moves(group_photos_by_enhanced_trips(config, SortByDatetime(ExistingPhotos)))
       IN  IF dry_run
           THEN \* "Would move": every destination path is appended, nothing moves
                /\ organized_photos' = moves
                /\ organize_todo' = <<>>
           ELSE /\ organized_photos' = <<>>
                /\ organize_todo' = moves
    /\ executed' = executed \cup {"Organize"}
    /\ pc' = "organizing"
    /\ UNCHANGED <<segvars, stagervars, ledgervars, scanvars, namevars, smartvars, orgvars, daemonvars, envvars, failed,
                   fsvars, start_staging, ever_staged, kills, killed_in, killed_todo, tool_invoked, reported,
                   device_ok, destination_ok, dry_run, stats, copy_todo, total_copied,
                   copied_files, upload_success, result>>

\* shutil.move(str(photo_path), str(dest_path)); organized_files.append(dest_path)
OrganizeMove ==
    /\ pc = "organizing"
    /\ organize_todo # <<>>
    /\ LET move == Head(organize_todo)
       IN  /\ staging' = staging \ {move[2]}
           /\ new_photos' = new_photos \cup {move}
           /\ organized_photos' = Append(organized_photos, move)
    /\ organize_todo' = Tail(organize_todo)
    /\ UNCHANGED <<segvars, stagervars, ledgervars, scanvars, namevars, smartvars, orgvars, daemonvars, envvars, failed,
                   source_files, staging_exists, staging_manifest,
                   upload_manifest, uploaded_photos, archive_manifest, histvars,
                   device_ok, destination_ok, pc, dry_run, stats, copy_todo,
                   total_copied, copied_files, upload_success, result>>

\* back in the run: photos_organized and trips_detected
OrganizeDone ==
    /\ pc = "organizing"
    /\ organize_todo = <<>>
    /\ stats' = [stats EXCEPT
                    !.photos_organized = Len(organized_photos),
                    !.trips_detected =
                        IF organized_photos # <<>>
                        THEN Cardinality({p[1] : p \in Range(organized_photos)})
                        ELSE @]
    /\ pc' = "verify"
    /\ UNCHANGED <<segvars, stagervars, ledgervars, scanvars, namevars, smartvars, orgvars, daemonvars, envvars, failed,
                   fsvars, histvars, device_ok, destination_ok, dry_run,
                   copy_todo, total_copied, copied_files, organize_todo,
                   organized_photos, upload_success, result>>

\* verify against the staging manifest, then write the upload manifest
VerifyStaging ==
    /\ pc = "verify"
    /\ stats' = [stats EXCEPT !.errors =
                    IF ~dry_run /\ staging_exists /\ staging_manifest.exists
                    THEN @ \o verify_against_manifest(ExistingPhotos, staging_manifest)
                    ELSE @]
    /\ upload_manifest' = IF organized_photos # <<>> /\ ~dry_run
                          THEN WrittenManifest(Range(organized_photos))
                          ELSE upload_manifest
    /\ pc' = IF ShouldUpload(organized_photos, dry_run) THEN "upload" ELSE "final"
    /\ UNCHANGED <<segvars, stagervars, ledgervars, scanvars, namevars, smartvars, orgvars, daemonvars, envvars, failed,
                   source_files, staging_exists, staging, staging_manifest,
                   new_photos, uploaded_photos, archive_manifest, histvars,
                   device_ok, destination_ok, dry_run, copy_todo, total_copied,
                   copied_files, organize_todo, organized_photos, upload_success, result>>

\* Phase 3: upload_to_immich(organized_photos if not dry_run else organized_photos[:5])
Upload ==
    /\ pc = "upload"
    /\ LET photos == IF dry_run
                     THEN SubSeq(organized_photos, 1, IF Len(organized_photos) < 5
                                                      THEN Len(organized_photos) ELSE 5)
                     ELSE organized_photos
       IN  IF photos = <<>> \/ dry_run
           THEN \* nothing to upload, or "Would upload": the tool is not run
                /\ upload_success' = "True"
                /\ stats' = stats
                /\ UNCHANGED <<tool_invoked, failed>>
           ELSE \E outcome \in {"exit 0", "exit non-zero", "not found"} :
                   /\ tool_invoked' = TRUE
                   /\ IF outcome = "exit 0"
                      THEN /\ upload_success' = "True"
                           /\ UNCHANGED failed
                           /\ stats' = [stats EXCEPT !.photos_uploaded = Len(photos)]
                      ELSE /\ upload_success' = "False"
                           /\ failed' = failed \cup {"upload"}
                           /\ stats' = [stats EXCEPT !.errors =
                                  Append(@, Err(IF outcome = "not found"
                                                THEN "Immich CLI not found"
                                                ELSE "Immich upload failed", 0))]
    /\ executed' = executed \cup {"Upload"}
    /\ pc' = IF ShouldArchive(upload_success', dry_run) THEN "archive" ELSE "final"
    /\ UNCHANGED <<segvars, stagervars, ledgervars, scanvars, namevars, smartvars, orgvars, daemonvars, envvars,
                   fsvars, start_staging, ever_staged, kills, killed_in, killed_todo, reported,
                   device_ok, destination_ok, dry_run, copy_todo, total_copied,
                   copied_files, organize_todo, organized_photos, result>>

\* Phase 4: verify against the upload manifest, move_to_uploaded, archive manifest
Archive ==
    /\ pc = "archive"
    /\ stats' = [stats EXCEPT !.errors =
                    @ \o verify_against_manifest(Names(Range(organized_photos)),
                                                 upload_manifest)]
    /\ new_photos' = new_photos \ Range(organized_photos)
    /\ uploaded_photos' = uploaded_photos \cup Range(organized_photos)
    /\ archive_manifest' = IF uploaded_photos' # {}
                           THEN WrittenManifest(uploaded_photos')
                           ELSE archive_manifest
    /\ executed' = executed \cup {"Archive"}
    /\ pc' = "final"
    /\ UNCHANGED <<segvars, stagervars, ledgervars, scanvars, namevars, smartvars, orgvars, daemonvars, envvars, failed,
                   source_files, staging_exists, staging, staging_manifest,
                   upload_manifest, start_staging, ever_staged, kills, killed_in, killed_todo, tool_invoked, reported,
                   device_ok, destination_ok, dry_run, copy_todo, total_copied,
                   copied_files, organize_todo, organized_photos, upload_success, result>>

\* final verification and cleanup of the staging area
Final ==
    /\ pc = "final"
    /\ IF ~dry_run /\ staging_exists
       THEN /\ stats' = [stats EXCEPT !.errors =
                            IF Globbed(staging) # {}
                            THEN Append(@, Err("files not processed from staging",
                                               Cardinality(Globbed(staging))))
                            ELSE @]
            /\ staging_exists' = IF ShouldRemoveStaging(Globbed(staging),
                                                        \/ staging_manifest.exists
                                                        \/ staging \cap mixed_case # {})
                                 THEN FALSE
                                 ELSE staging_exists
       ELSE UNCHANGED <<stats, staging_exists>>
    /\ executed' = executed \cup {"Cleanup"}
    /\ pc' = "report"
    /\ UNCHANGED <<segvars, stagervars, ledgervars, scanvars, namevars, smartvars, orgvars, daemonvars, envvars, failed,
                   source_files, staging, staging_manifest, new_photos,
                   upload_manifest, uploaded_photos, archive_manifest,
                   start_staging, ever_staged, kills, killed_in, killed_todo, tool_invoked, reported,
                   device_ok, destination_ok, dry_run, copy_todo, total_copied,
                   copied_files, organize_todo, organized_photos, upload_success, result>>

\* report_results; return len(self.stats['errors']) == 0
Report ==
    /\ pc = "report"
    /\ reported' = TRUE
    /\ LET ended == IF stats.photos_copied > 0 \/ dry_run
                    THEN notify(notifier)
                    ELSE "returned"
       IN  /\ result' = IF ended = "raised" THEN result ELSE ReturnValue(stats.errors)
           /\ failed' = IF ended = "raised" THEN failed \cup {"notify"} ELSE failed
           /\ pc' = ended
    /\ UNCHANGED <<segvars, stagervars, ledgervars, scanvars, namevars, smartvars, orgvars, daemonvars, envvars,
                   fsvars, executed, start_staging, ever_staged,
                   kills, killed_in, killed_todo, tool_invoked, device_ok, destination_ok, dry_run, stats,
                   copy_todo, total_copied, copied_files, organize_todo,
                   organized_photos, upload_success>>

\* the process is killed (interrupt signal): nothing is rolled back
Interrupt ==
    /\ pc \notin {"init", "returned", "raised", "killed"}
    /\ kills < MaxInterrupts
    /\ kills' = kills + 1
    /\ killed_in' = pc
    /\ killed_todo' = organize_todo
    /\ pc' = "killed"
    /\ UNCHANGED <<segvars, stagervars, ledgervars, scanvars, namevars, smartvars, orgvars, daemonvars, envvars, failed,
                   fsvars, executed, start_staging, ever_staged,
                   tool_invoked, reported,
                   device_ok, destination_ok, dry_run, stats, copy_todo, total_copied,
                   copied_files, organize_todo, organized_photos, upload_success, result>>

RunStep ==
    \/ FatalNoDevice \/ FatalNoDestination \/ Resume \/ ScanEmpty \/ ScanFound
    \/ CopyFile \/ CopyDone \/ OrganizeStart \/ OrganizeMove \/ OrganizeDone
    \/ VerifyStaging \/ Upload \/ Archive \/ Final \/ Report

Next == StartRun \/ RunStep \/ Interrupt

Spec == Init /\ [][Next]_vars

\* a started run keeps executing, and further runs keep being started;
\* nothing forces an interrupt
FairSpec == Spec /\ WF_vars(RunStep) /\ WF_vars(StartRun)

\* ------------------------------------- the pipeline with a growing source
\* between two runs new photos appear on the device
SourceGains ==
    /\ pc \in {"init", "returned"}
    /\ \E f \in Files \ source_files : source_files' = source_files \cup {f}
    /\ UNCHANGED <<segvars, stagervars, ledgervars, scanvars, namevars, smartvars, orgvars, daemonvars,
                   envvars, failed, runvars, histvars,
                   staging_exists, staging, staging_manifest, new_photos,
                   upload_manifest, uploaded_photos, archive_manifest>>

GrowNext == StartRun \/ RunStep \/ SourceGains

\* runs are not interrupted; a started run keeps executing and further runs
\* keep being started
GrowSpec == Init /\ [][GrowNext]_vars /\ WF_vars(RunStep) /\ WF_vars(StartRun)

\* ---------------------------------- the pipeline with mixed-case extensions
\* uninterrupted runs over a source some of whose files carry an extension
\* spelled in mixed case
CaseInit ==
    /\ config \in SyncConfigs
    /\ SegIdle /\ StagerIdle /\ LedgerIdle /\ ScanIdle /\ NameIdle /\ SmartIdle /\ OrgIdle /\ DaemonIdle
    /\ PipelineStart
    /\ NoFaults
    /\ mixed_case \in SUBSET Files

CaseNext == StartRun \/ RunStep

CaseSpec == CaseInit /\ [][CaseNext]_vars

\* --------------------------------------- the segmenter on its own inputs
\* the pipeline at rest, with nothing on the source
\* ------------------------------------------- the pipeline with failures
Notifiers == {"ok", "exit non-zero", "absent", "disabled"}

FaultInit ==
    /\ config \in SyncConfigs
    /\ SegIdle /\ StagerIdle /\ LedgerIdle /\ ScanIdle /\ NameIdle /\ SmartIdle /\ OrgIdle /\ DaemonIdle
    /\ PipelineStart
    /\ \/ notifier \in Notifiers /\ io_faults = FALSE
       \/ notifier = "ok" /\ io_faults = TRUE
    /\ PlainCase

\* copy_all_photos: shutil.copy2 raises; "except Exception: print; continue"
\* goes on with the next directory, the rest of this one is not visited
CopyFails ==
    /\ pc = "copy"
    /\ io_faults
    /\ ~dry_run
    /\ copy_todo # {}
    /\ copy_todo' = {}
    /\ failed' = failed \cup {"copy"}
    /\ UNCHANGED <<segvars, stagervars, ledgervars, scanvars, namevars, smartvars, orgvars, daemonvars, envvars, fsvars, histvars,
                   device_ok, destination_ok, pc, dry_run, stats, total_copied,
                   copied_files, organize_todo, organized_photos, upload_success, result>>

\* create_staging_manifest: open or write raises; "except Exception: print;
\* return False", and copy_all_photos does not look at the return value
StagingManifestFails ==
    /\ pc = "copy"
    /\ io_faults
    /\ copy_todo = {}
    /\ copied_files # {} /\ ~dry_run
    /\ stats' = [stats EXCEPT !.photos_copied = total_copied]
    /\ failed' = failed \cup {"manifest"}
    /\ pc' = "organize"
    /\ UNCHANGED <<segvars, stagervars, ledgervars, scanvars, namevars, smartvars, orgvars, daemonvars, envvars, fsvars, histvars,
                   device_ok, destination_ok, dry_run, copy_todo, total_copied,
                   copied_files, organize_todo, organized_photos, upload_success, result>>

\* analyze_and_organize_photos: shutil.move raises; nothing catches it
OrganizeMoveFails ==
    /\ pc = "organizing"
    /\ io_faults
    /\ organize_todo # <<>>
    /\ failed' = failed \cup {"organize move"}
    /\ pc' = "raised"
    /\ UNCHANGED <<segvars, stagervars, ledgervars, scanvars, namevars, smartvars, orgvars, daemonvars, envvars, fsvars, histvars,
                   device_ok, destination_ok, dry_run, stats, copy_todo, total_copied,
                   copied_files, organize_todo, organized_photos, upload_success, result>>

\* move_to_uploaded: shutil.move raises on the first photo; only ValueError
\* is caught
ArchiveMoveFails ==
    /\ pc = "archive"
    /\ io_faults
    /\ organized_photos # <<>>
    /\ stats' = [stats EXCEPT !.errors =
                    @ \o verify_against_manifest(Names(Range(organized_photos)),
                                                 upload_manifest)]
    /\ executed' = executed \cup {"Archive"}
    /\ failed' = failed \cup {"archive move"}
    /\ pc' = "raised"
    /\ UNCHANGED <<segvars, stagervars, ledgervars, scanvars, namevars, smartvars, orgvars, daemonvars, envvars, fsvars,
                   start_staging, ever_staged, kills, killed_in, killed_todo, tool_invoked, reported,
                   device_ok, destination_ok, dry_run, copy_todo, total_copied,
                   copied_files, organize_todo, organized_photos, upload_success, result>>

FaultStep == CopyFails \/ StagingManifestFails \/ OrganizeMoveFails \/ ArchiveMoveFails

FaultNext == StartRun \/ RunStep \/ FaultStep

FaultSpec == FaultInit /\ [][FaultNext]_vars

SyncQuiet == SyncInit /\ source_files = {}

SegInit ==
    /\ config \in Configs
    /\ photos_metadata \in Inputs
    /\ i = 2
    /\ current_trip = IF photos_metadata = <<>> THEN <<>> ELSE <<photos_metadata[1]>>
    /\ trips = <<>>
    /\ seg_pc = "loop"
    /\ dropped = {}
    /\ StagerIdle
    /\ LedgerIdle
    /\ ScanIdle /\ NameIdle /\ SmartIdle /\ OrgIdle /\ DaemonIdle
    /\ SyncQuiet

Paths(photos) == {photos[k].path : k \in 1..Len(photos)}

\* if not photos_metadata: return []
SegEmpty ==
    /\ seg_pc = "loop"
    /\ photos_metadata = <<>>
    /\ seg_pc' = "done"
    /\ UNCHANGED <<config, photos_metadata, i, current_trip, trips, dropped, syncvars, stagervars, ledgervars, scanvars, namevars, smartvars, orgvars, daemonvars>>

\* for i in range(1, len(photos_metadata)): ...
SegStep ==
    /\ seg_pc = "loop"
    /\ photos_metadata # <<>>
    /\ i <= Len(photos_metadata)
    /\ LET st == LoopBody(config, [trips |-> trips, current_trip |-> current_trip],
                          photos_metadata[i - 1], photos_metadata[i])
       IN  /\ trips' = st.trips
           /\ current_trip' = st.current_trip
    /\ dropped' = IF /\ should_start_new_trip(Decision(config, current_trip,
                                                        photos_metadata[i - 1], photos_metadata[i]))
                      /\ Len(current_trip) < config.min_photos_per_trip
                   THEN dropped \cup Paths(current_trip)
                   ELSE dropped
    /\ i' = i + 1
    /\ UNCHANGED <<config, photos_metadata, seg_pc, syncvars, stagervars, ledgervars, scanvars, namevars, smartvars, orgvars, daemonvars>>

\* the code after the loop, and return trips
SegFinish ==
    /\ seg_pc = "loop"
    /\ photos_metadata # <<>>
    /\ i > Len(photos_metadata)
    /\ trips' = AddLastTrip(config, [trips |-> trips, current_trip |-> current_trip])
    /\ dropped' = IF Len(current_trip) < config.min_photos_per_trip
                   THEN dropped \cup Paths(current_trip)
                   ELSE dropped
    /\ seg_pc' = "done"
    /\ UNCHANGED <<config, photos_metadata, i, current_trip, syncvars, stagervars, ledgervars, scanvars, namevars, smartvars, orgvars, daemonvars>>

SegNext == SegEmpty \/ SegStep \/ SegFinish

SegSpec == SegInit /\ [][SegNext]_vars

\* ------------------------------------------- the stager on its own inputs
\* A file name is its stem, a sequence: <<"A">> is A.jpg and <<"A", 1>> is
\* A_1.jpg (one extension throughout), so that the stem of a source file can
\* itself end in a counter.
Stems == {<<"A">>, <<"A", 1>>}
Sizes == {1, 2}
BatchSizes == {1, 2}
MaxPhotosArgs == {0, 1, 2}

\* the eligible files of one directory, in iterdir order: names are distinct
DirListings ==
    {<<f>> : f \in [stem : Stems, size : Sizes]}
    \cup {<<f, g>> : f \in [stem : {<<"A">>}, size : Sizes],
                     g \in [stem : {<<"A", 1>>}, size : {2}]}
    \cup {<<g, f>> : f \in [stem : {<<"A">>}, size : Sizes],
                     g \in [stem : {<<"A", 1>>}, size : {2}]}

\* dest_path = staging_path / f"{base_name}_{counter}{extension}"
Suffixed(base_name, counter) == base_name \o <<counter>>

\* the while loop at one photo_file: the destination it ends on, and whether
\* it ended by the break (a file of equal size sits at dest_path)
RECURSIVE FindDest(_, _, _, _)
FindDest(stg, photo_file, dest_path, counter) ==
    IF dest_path \in DOMAIN stg
    THEN IF photo_file.size = stg[dest_path]
         THEN [skipped |-> TRUE, dest_path |-> dest_path]
         ELSE FindDest(stg, photo_file, Suffixed(photo_file.stem, counter), counter + 1)
    ELSE [skipped |-> FALSE, dest_path |-> dest_path]

\* shutil.copy2(photo_file, dest_path)
WithFile(stg, dest_path, size) ==
    [n \in DOMAIN stg \cup {dest_path} |-> IF n = dest_path THEN size ELSE stg[n]]

current_file == photo_dirs[dir_idx][batch_i + batch_k + 1]

\* if max_photos and total_copied >= max_photos: break
ReachedLimit(limit, count) == limit # 0 /\ count >= limit

\* the three loops' next position after one photo_file; broke: the batch
\* loop was left by break
Advance(broke) ==
    LET n == Len(photo_dirs[dir_idx])
    IN  IF ~broke /\ batch_k + 1 < batch_size /\ batch_i + batch_k + 1 < n
        THEN /\ batch_k' = batch_k + 1
             /\ UNCHANGED <<dir_idx, batch_i, stager_pc>>
        ELSE IF batch_i + batch_size < n
        THEN /\ batch_i' = batch_i + batch_size
             /\ batch_k' = 0
             /\ UNCHANGED <<dir_idx, stager_pc>>
        ELSE IF dir_idx < Len(photo_dirs)
        THEN /\ dir_idx' = dir_idx + 1
             /\ batch_i' = 0
             /\ batch_k' = 0
             /\ UNCHANGED stager_pc
        ELSE /\ stager_pc' = "manifest"
             /\ UNCHANGED <<dir_idx, batch_i, batch_k>>

StagerInit ==
    /\ \E n \in 1..MaxDirs : photo_dirs \in [1..n -> DirListings]
    /\ batch_size \in BatchSizes
    /\ max_photos \in MaxPhotosArgs
    /\ stager_dry_run \in BOOLEAN
    /\ staging_path = <<>>
    /\ dir_idx = 1
    /\ batch_i = 0
    /\ batch_k = 0
    /\ stager_total_copied = 0
    /\ stager_copied_files = <<>>
    /\ stager_manifest = NoManifest
    /\ stager_pc = "loop"
    /\ config \in {c \in SyncConfigs : c.min_photos_per_trip = 1}
    /\ SegIdle
    /\ LedgerIdle
    /\ ScanIdle /\ NameIdle /\ SmartIdle /\ OrgIdle /\ DaemonIdle
    /\ SyncQuiet

\* the while loop ends by break: "Skipped duplicate"
StagerSkip ==
    /\ stager_pc = "loop"
    /\ ~stager_dry_run
    /\ FindDest(staging_path, current_file, current_file.stem, 1).skipped
    /\ Advance(FALSE)
    /\ UNCHANGED <<photo_dirs, batch_size, max_photos, stager_dry_run, staging_path,
                   stager_total_copied, stager_copied_files, stager_manifest,
                   segvars, syncvars, ledgervars, scanvars, namevars, smartvars, orgvars, daemonvars>>

\* the while loop ends on a free name: the file is copied there
StagerCopy ==
    /\ stager_pc = "loop"
    /\ ~stager_dry_run
    /\ LET found == FindDest(staging_path, current_file, current_file.stem, 1)
       IN  /\ ~found.skipped
           /\ staging_path' = WithFile(staging_path, found.dest_path, current_file.size)
           /\ stager_copied_files' = Append(stager_copied_files, found.dest_path)
    /\ stager_total_copied' = stager_total_copied + 1
    /\ Advance(ReachedLimit(max_photos, stager_total_copied + 1))
    /\ UNCHANGED <<photo_dirs, batch_size, max_photos, stager_dry_run, stager_manifest,
                   segvars, syncvars, ledgervars, scanvars, namevars, smartvars, orgvars, daemonvars>>

\* dry run: the while loop is not entered; "Would copy"
StagerWouldCopy ==
    /\ stager_pc = "loop"
    /\ stager_dry_run
    /\ stager_total_copied' = stager_total_copied + 1
    /\ stager_copied_files' = Append(stager_copied_files, current_file.stem)
    /\ Advance(ReachedLimit(max_photos, stager_total_copied + 1))
    /\ UNCHANGED <<photo_dirs, batch_size, max_photos, stager_dry_run, staging_path,
                   stager_manifest, segvars, syncvars, ledgervars, scanvars, namevars, smartvars, orgvars, daemonvars>>

\* if copied_files and not dry_run: create_staging_manifest; return total_copied
StagerManifest ==
    /\ stager_pc = "manifest"
    /\ stager_manifest' = IF stager_copied_files # <<>> /\ ~stager_dry_run
                          THEN Manifest(Range(stager_copied_files))
                          ELSE stager_manifest
    /\ stager_pc' = "done"
    /\ UNCHANGED <<photo_dirs, batch_size, max_photos, stager_dry_run, staging_path,
                   dir_idx, batch_i, batch_k, stager_total_copied, stager_copied_files,
                   segvars, syncvars, ledgervars, scanvars, namevars, smartvars, orgvars, daemonvars>>

StagerNext == StagerSkip \/ StagerCopy \/ StagerWouldCopy \/ StagerManifest

StagerSpec == StagerInit /\ [][StagerNext]_vars

\* ------------------------------------------ the manifest on its own inputs
\* A file name is a sequence of characters followed by its extension; the
\* extension (".jpg") is held as the one character ".".
Chars == {"a", "#", " ", "|"}
Ext == <<".">>
FileNames == UNION {{body \o Ext : body \in [1..n -> Chars]} : n \in 1..MaxNameLen}
PlainNames == {<<"a">> \o Ext, <<"b">> \o Ext}

\* the field separator of a manifest line
Sep == <<" ", "|", " ">>

\* f"{file_path.name} | {size} | {mtime} | {file_type}\n"
ManifestLine(name) == name \o Sep \o <<"0">> \o Sep \o <<"0">> \o Sep \o Ext

\* the lines before and after the file lines: comments and empty lines
HeaderLines == << <<"#", " ", "a">>, <<"#">>, <<>> >>
SummaryLines == << <<>>, <<"#", " ", "a">> >>

\* sorted(files): the order of the file lines plays no part in the reading
RECURSIVE FileLines(_)
FileLines(files) ==
    IF files = {} THEN <<>>
    ELSE LET f == CHOOSE x \in files : TRUE
         IN  <<ManifestLine(f)>> \o FileLines(files \ {f})

\* create_manifest / create_staging_manifest: the lines written
create_manifest(files) == HeaderLines \o FileLines(files) \o SummaryLines

\* str.strip()
Strip(s) ==
    LET nonblank == {k \in 1..Len(s) : s[k] # " "}
    IN  IF nonblank = {} THEN <<>>
        ELSE SubSeq(s, Min(nonblank), CHOOSE k \in nonblank : \A m \in nonblank : m <= k)

\* line.split(' | ')[0]
FirstField(line) ==
    LET at == {p \in 1..(Len(line) - 2) : SubSeq(line, p, p + 2) = Sep}
    IN  IF at = {} THEN line ELSE SubSeq(line, 1, Min(at) - 1)

\* if line.startswith('#') or not line.strip(): continue
IsSkipped(line) == (line # <<>> /\ line[1] = "#") \/ Strip(line) = <<>>

\* the set manifest_files read back from the lines
manifest_files(lines) ==
    {Strip(FirstField(lines[k])) : k \in {j \in 1..Len(lines) : ~IsSkipped(lines[j])}}

\* missing = manifest_files - current_names; extra = current_names - manifest_files
Missing == manifest_files(manifest_file.lines) \ directory
Extra == directory \ manifest_files(manifest_file.lines)

\* self.stats['errors'].append(f"Missing file: {name}") for each missing name;
\* extra names are printed only
VerifyErrors(missing, extra) == {Err("Missing file", name) : name \in missing}

LedgerInit ==
    /\ \E n \in FileNames, S \in SUBSET PlainNames : directory = {n} \cup S
    /\ manifest_file = [exists |-> FALSE, lines |-> <<>>]
    /\ recorded = {}
    /\ ledger_errors = {}
    /\ verify_result = "none"
    /\ ledger_pc = "record"
    /\ config \in {c \in SyncConfigs : c.min_photos_per_trip = 1}
    /\ SegIdle
    /\ StagerIdle
    /\ ScanIdle /\ NameIdle /\ SmartIdle /\ OrgIdle /\ DaemonIdle
    /\ SyncQuiet

\* create_manifest(files, manifest_path, description) for the directory's files
LedgerRecord ==
    /\ ledger_pc = "record"
    /\ manifest_file' = [exists |-> TRUE, lines |-> create_manifest(directory)]
    /\ recorded' = directory
    /\ ledger_pc' = "recorded"
    /\ UNCHANGED <<directory, ledger_errors, verify_result, segvars, syncvars, stagervars, scanvars, namevars, smartvars, orgvars, daemonvars>>

\* a recorded file leaves the directory between record and verify
LedgerDelete ==
    /\ ledger_pc = "recorded"
    /\ directory = recorded
    /\ \E f \in directory : directory' = directory \ {f}
    /\ UNCHANGED <<manifest_file, recorded, ledger_errors, verify_result, ledger_pc,
                   segvars, syncvars, stagervars, scanvars, namevars, smartvars, orgvars, daemonvars>>

\* a file appears in the directory between record and verify
LedgerCreate ==
    /\ ledger_pc = "recorded"
    /\ directory = recorded
    /\ \E f \in PlainNames \ directory : directory' = directory \cup {f}
    /\ UNCHANGED <<manifest_file, recorded, ledger_errors, verify_result, ledger_pc,
                   segvars, syncvars, stagervars, scanvars, namevars, smartvars, orgvars, daemonvars>>

\* verify_against_manifest(current_files, manifest_path, description)
LedgerVerify ==
    /\ ledger_pc \in {"record", "recorded"}
    /\ IF ~manifest_file.exists
       THEN /\ verify_result' = "False"
            /\ UNCHANGED ledger_errors
       ELSE /\ ledger_errors' = ledger_errors \cup VerifyErrors(Missing, Extra)
            /\ verify_result' = IF Missing = {} /\ Extra = {} THEN "True" ELSE "False"
    /\ ledger_pc' = "done"
    /\ UNCHANGED <<directory, manifest_file, recorded, segvars, syncvars, stagervars, scanvars, namevars, smartvars, orgvars, daemonvars>>

LedgerNext == LedgerRecord \/ LedgerDelete \/ LedgerCreate \/ LedgerVerify

LedgerSpec == LedgerInit /\ [][LedgerNext]_vars

\* ---------------------------------------- discovery on its own source tree
\* The source tree: directory 0 is source_path, with subdirectories 1 and 2;
\* 3 is a subdirectory of 1.  No directory name starts with '.'.
Dirs == {0, 1, 2, 3}
Subdirs == <<<<3>>, <<>>, <<>>>>
SubdirsOf(d) == IF d = 0 THEN <<1, 2>> ELSE Subdirs[d]
Depth(d) == IF d = 0 THEN 0 ELSE IF d = 3 THEN 2 ELSE 1

\* a file is its name's beginning and its suffix
photo_extensions == {".jpg", ".mov"}
Lower(suffix) == IF suffix = ".JPG" THEN ".jpg" ELSE suffix
FileKinds ==
    {[start |-> "IMG", suffix |-> ".jpg"], [start |-> "._IMG", suffix |-> ".JPG"],
     [start |-> "notes", suffix |-> ".txt"]}
Listings == {{}} \cup {{f} : f \in FileKinds}

\* discovery's test: item.suffix.lower() in self.photo_extensions
HasPhotoSuffix(f) == Lower(f.suffix) \in photo_extensions

\* the stager's test: the suffix, and the name starts neither with '._' nor
\* with '.DS_Store'
Eligible(f) == HasPhotoSuffix(f) /\ f.start \notin {"._IMG", ".DS_Store"}

\* if attempt == 2: the final attempt of "for attempt in range(3)"
GivesUp_AfterFirst(att) == att = 0

GivesUp(att) == att = 2

ScanInit ==
    /\ dir_files \in [Dirs -> Listings]
    /\ scan_stack = <<0>>
    /\ attempt = 0
    /\ found_photo_dirs = <<>>
    /\ skipped_dirs = <<>>
    /\ attempts_made = [d \in Dirs |-> 0]
    /\ listed = {}
    /\ scan_pc = "scan"
    /\ config \in {c \in SyncConfigs : c.min_photos_per_trip = 1}
    /\ SegIdle
    /\ StagerIdle
    /\ LedgerIdle
    /\ NameIdle /\ SmartIdle /\ OrgIdle /\ DaemonIdle
    /\ SyncQuiet

\* list(directory.iterdir()) raises PermissionError or OSError
ListingFails ==
    /\ scan_pc = "scan"
    /\ scan_stack # <<>>
    /\ LET this_dir == Head(scan_stack)
       IN  /\ attempts_made' = [attempts_made EXCEPT ![this_dir] = @ + 1]
           /\ IF GivesUp(attempt)
              THEN \* "Cannot access after 3 attempts": skipped, return
                   /\ skipped_dirs' = Append(skipped_dirs, this_dir)
                   /\ scan_stack' = Tail(scan_stack)
                   /\ attempt' = 0
              ELSE /\ attempt' = attempt + 1
                   /\ UNCHANGED <<skipped_dirs, scan_stack>>
    /\ UNCHANGED <<dir_files, found_photo_dirs, listed, scan_pc, segvars, syncvars,
                   stagervars, ledgervars, namevars, smartvars, orgvars, daemonvars>>

\* the listing succeeds: the this_dir's files are looked at and its
\* subdirectories scanned next, depth first
ListingSucceeds ==
    /\ scan_pc = "scan"
    /\ scan_stack # <<>>
    /\ LET this_dir == Head(scan_stack)
           found_photos_here == \E f \in dir_files[this_dir] : HasPhotoSuffix(f)
       IN  /\ attempts_made' = [attempts_made EXCEPT ![this_dir] = @ + 1]
           /\ listed' = listed \cup {<<this_dir, attempt + 1>>}
           /\ found_photo_dirs' = IF found_photos_here
                                  THEN Append(found_photo_dirs, this_dir)
                                  ELSE found_photo_dirs
           /\ scan_stack' = IF Depth(this_dir) < max_scan_depth
                            THEN SubdirsOf(this_dir) \o Tail(scan_stack)
                            ELSE Tail(scan_stack)
    /\ attempt' = 0
    /\ UNCHANGED <<dir_files, skipped_dirs, scan_pc, segvars, syncvars, stagervars,
                   ledgervars, namevars, smartvars, orgvars, daemonvars>>

\* the Scan Summary; return photo_dirs
ScanReturn ==
    /\ scan_pc = "scan"
    /\ scan_stack = <<>>
    /\ scan_pc' = "done"
    /\ UNCHANGED <<dir_files, scan_stack, attempt, found_photo_dirs, skipped_dirs,
                   attempts_made, listed, segvars, syncvars, stagervars, ledgervars, namevars, smartvars, orgvars, daemonvars>>

ScanNext == ListingFails \/ ListingSucceeds \/ ScanReturn

ScanSpec == ScanInit /\ [][ScanNext]_vars

\* ------------------------------------------------------------ trip naming
\* get_trip_info on a trip whose first photo was taken at any hour of day 0
\* and whose last photo up to MaxSpanDays days later
HoursOfDay == 0..23

NamedTrips ==
    {[photos |-> <<[path |-> 1, datetime |-> s, gps |-> None],
                   [path |-> 2, datetime |-> s + d, gps |-> None]>>,
      reason |-> "Final trip"] : s \in HoursOfDay, d \in 0..(MaxSpanDays * 24)}

NameInit ==
    /\ named_trip \in NamedTrips
    /\ trip_name = <<>>
    /\ name_pc = "call"
    /\ config \in {c \in SyncConfigs : c.min_photos_per_trip = 1}
    /\ SegIdle
    /\ StagerIdle
    /\ LedgerIdle
    /\ ScanIdle
    /\ SmartIdle /\ OrgIdle /\ DaemonIdle
    /\ SyncQuiet

\* trip_info = self.trip_detector.get_trip_info(trip_data); trip_info['name']
NameTrip ==
    /\ name_pc = "call"
    /\ trip_name' = get_trip_info(named_trip)
    /\ name_pc' = "done"
    /\ UNCHANGED <<named_trip, segvars, syncvars, stagervars, ledgervars, scanvars, smartvars, orgvars, daemonvars>>

NameNext == NameTrip

NameSpec == NameInit /\ [][NameNext]_vars

\* ------------------------------------------------------------- smart sync
\* The names smart sync meets: two spellings of one name, another name, and
\* an AppleDouble companion. The device has two directories.
SmartNames ==
    {[start |-> "IMG", suffix |-> ".JPG"], [start |-> "img", suffix |-> ".jpg"],
     [start |-> "DSC", suffix |-> ".JPG"], [start |-> "._IMG", suffix |-> ".JPG"]}
SmartPaths == {1, 2} \X SmartNames

\* str.upper() and str.lower() on a file name
Upper(name) ==
    [start  |-> IF name.start = "img" THEN "IMG" ELSE name.start,
     suffix |-> IF name.suffix = ".jpg" THEN ".JPG"
                ELSE IF name.suffix = ".JPG | 2048 | 2024-01-01T10:00:00 | .jpg"
                     THEN ".JPG | 2048 | 2024-01-01T10:00:00 | .JPG"
                ELSE name.suffix]
LowerName(name) ==
    [start  |-> IF name.start = "IMG" THEN "img"
                ELSE IF name.start = "DSC" THEN "dsc"
                ELSE IF name.start = "._IMG" THEN "._img" ELSE name.start,
     suffix |-> Lower(name.suffix)]

\* os.walk: any order of any distinct files of the device
Walks ==
    UNION {{w \in [1..n -> SmartPaths] : \A a, b \in 1..n : a # b => w[a] # w[b]}
           : n \in 0..MaxPhotos}

\* a line of a manifest at <destination>: the name, then the rest of the line
\* after a tab or, as create_manifest writes it, after " | "
ManifestLines == {[name |-> [start |-> "IMG", suffix |-> ".JPG"], sep |-> sep]
                  : sep \in {"\t", " | "}}

\* Path(line.strip().split('\t')[0]).name: up to the first tab, so the whole
\* of a line that has none
FirstTabField(line) ==
    IF line.sep = "\t" THEN line.name
    ELSE [start  |-> line.name.start,
          suffix |-> IF line.name.suffix = ".JPG"
                     THEN ".JPG | 2048 | 2024-01-01T10:00:00 | .jpg"
                     ELSE line.name.suffix]

\* get_uploaded_files / get_manifest_files: the names, upper-cased
get_uploaded_files(tree) == {Upper(n) : n \in tree}
get_manifest_files(lines) == {Upper(FirstTabField(l)) : l \in lines}

\* calvin_files[filename.upper()] = file_path
Put(dict, key, value) ==
    [k \in DOMAIN dict \cup {key} |-> IF k = key THEN value ELSE dict[k]]

\* scan_calvin_files: the dictionary after the walk
RECURSIVE scan_calvin_files(_, _)
scan_calvin_files(walk, dict) ==
    IF walk = <<>> THEN dict
    ELSE scan_calvin_files(Tail(walk),
                           IF Eligible(Head(walk)[2])
                           THEN Put(dict, Upper(Head(walk)[2]), Head(walk))
                           ELSE dict)

\* find_missing_files
find_missing_files(files, uploaded_files, manifest_files_read) ==
    LET all_uploaded == uploaded_files \cup manifest_files_read
    IN  [k \in DOMAIN files \ all_uploaded |-> files[k]]

SmartInit ==
    /\ smart_walk \in Walks
    /\ smart_uploaded \in SUBSET {[start |-> "img", suffix |-> ".jpg"],
                                  [start |-> "DSC", suffix |-> ".JPG"]}
    /\ smart_manifest \in SUBSET ManifestLines
    /\ archive_written \in SUBSET {[start |-> "IMG", suffix |-> ".JPG"]}
    /\ smart_device_ok \in BOOLEAN
    /\ smart_dry_run \in BOOLEAN
    /\ calvin_files = <<>>
    /\ missing_files = <<>>
    /\ smart_todo = {}
    /\ smart_staging = [exists |-> FALSE, files |-> {}]
    /\ smart_result = "none"
    /\ smart_pc = "start"
    /\ config \in {c \in SyncConfigs : c.min_photos_per_trip = 1}
    /\ SegIdle
    /\ StagerIdle
    /\ LedgerIdle
    /\ ScanIdle
    /\ NameIdle
    /\ OrgIdle /\ DaemonIdle
    /\ SyncQuiet

\* if not calvin_path.exists(): return False
SmartNoDevice ==
    /\ smart_pc = "start"
    /\ ~smart_device_ok
    /\ smart_result' = "False"
    /\ smart_pc' = "done"
    /\ UNCHANGED <<smart_walk, smart_uploaded, smart_manifest, archive_written, smart_device_ok,
                   smart_dry_run, calvin_files, missing_files, smart_todo, smart_staging,
                   segvars, syncvars, stagervars, ledgervars, scanvars, namevars, orgvars, daemonvars>>

\* steps 1 to 3: the uploaded names, the manifest names, the scan, the missing files
SmartAnalyse ==
    /\ smart_pc = "start"
    /\ smart_device_ok
    /\ calvin_files' = scan_calvin_files(smart_walk, <<>>)
    /\ missing_files' = find_missing_files(calvin_files',
                                           get_uploaded_files(smart_uploaded),
                                           get_manifest_files(smart_manifest))
    /\ smart_pc' = "analysed"
    /\ UNCHANGED <<smart_walk, smart_uploaded, smart_manifest, archive_written, smart_device_ok,
                   smart_dry_run, smart_todo, smart_staging, smart_result,
                   segvars, syncvars, stagervars, ledgervars, scanvars, namevars, orgvars, daemonvars>>

\* if not missing_files: return True
SmartNothingMissing ==
    /\ smart_pc = "analysed"
    /\ DOMAIN missing_files = {}
    /\ smart_result' = "True"
    /\ smart_pc' = "done"
    /\ UNCHANGED <<smart_walk, smart_uploaded, smart_manifest, archive_written, smart_device_ok,
                   smart_dry_run, calvin_files, missing_files, smart_todo, smart_staging,
                   segvars, syncvars, stagervars, ledgervars, scanvars, namevars, orgvars, daemonvars>>

\* if dry_run: "Would sync"; return True
SmartDryRun ==
    /\ smart_pc = "analysed"
    /\ DOMAIN missing_files # {}
    /\ smart_dry_run
    /\ smart_result' = "True"
    /\ smart_pc' = "done"
    /\ UNCHANGED <<smart_walk, smart_uploaded, smart_manifest, archive_written, smart_device_ok,
                   smart_dry_run, calvin_files, missing_files, smart_todo, smart_staging,
                   segvars, syncvars, stagervars, ledgervars, scanvars, namevars, orgvars, daemonvars>>

\* staging_path.mkdir(exist_ok=True)
SmartMkdir ==
    /\ smart_pc = "analysed"
    /\ DOMAIN missing_files # {}
    /\ ~smart_dry_run
    /\ smart_staging' = [smart_staging EXCEPT !.exists = TRUE]
    /\ smart_todo' = DOMAIN missing_files
    /\ smart_pc' = "copy"
    /\ UNCHANGED <<smart_walk, smart_uploaded, smart_manifest, archive_written, smart_device_ok,
                   smart_dry_run, calvin_files, missing_files, smart_result,
                   segvars, syncvars, stagervars, ledgervars, scanvars, namevars, orgvars, daemonvars>>

\* one round of the copy loop: shutil.copy2(file_path, staging_path / filename.lower())
SmartCopy ==
    /\ smart_pc = "copy"
    /\ smart_todo # {}
    /\ LET filename == CHOOSE k \in smart_todo : TRUE
       IN  /\ smart_staging' = [smart_staging EXCEPT !.files =
                                   {f \in @ : f[1] # LowerName(filename)}
                                   \cup {<<LowerName(filename), missing_files[filename]>>}]
           /\ smart_todo' = smart_todo \ {filename}
    /\ UNCHANGED <<smart_walk, smart_uploaded, smart_manifest, archive_written, smart_device_ok,
                   smart_dry_run, calvin_files, missing_files, smart_result, smart_pc,
                   segvars, syncvars, stagervars, ledgervars, scanvars, namevars, orgvars, daemonvars>>

\* after the loop: return True
SmartCopyDone ==
    /\ smart_pc = "copy"
    /\ smart_todo = {}
    /\ smart_result' = "True"
    /\ smart_pc' = "done"
    /\ UNCHANGED <<smart_walk, smart_uploaded, smart_manifest, archive_written, smart_device_ok,
                   smart_dry_run, calvin_files, missing_files, smart_todo, smart_staging,
                   segvars, syncvars, stagervars, ledgervars, scanvars, namevars, orgvars, daemonvars>>

SmartNext ==
    \/ SmartNoDevice
    \/ SmartAnalyse
    \/ SmartNothingMissing
    \/ SmartDryRun
    \/ SmartMkdir
    \/ SmartCopy
    \/ SmartCopyDone

SmartSpec == SmartInit /\ [][SmartNext]_vars

\* -------------------------------------------- grouping, then trip folders
\* staged photos of one or two days: the first at 02:00, the following ones
\* 4, 10 or 30 hours after their predecessor
DayGapChoices == {4, 10, 30}

DayInputs ==
    UNION {{MkPhotos(<<2>> \o g, c) : g \in [1..(n - 1) -> DayGapChoices],
                                     c \in [1..n -> GpsChoices]} : n \in 1..MaxPhotos}

OrgInit ==
    /\ config \in Configs
    /\ photos_metadata \in DayInputs
    /\ i = 2
    /\ current_trip = <<photos_metadata[1]>>
    /\ trips = <<>>
    /\ seg_pc = "loop"
    /\ dropped = {}
    /\ trip_folders = <<>>
    /\ org_files = {}
    /\ org_trips_detected = 0
    /\ org_pc = "group"
    /\ StagerIdle
    /\ LedgerIdle
    /\ ScanIdle
    /\ NameIdle
    /\ SmartIdle
    /\ DaemonIdle
    /\ SyncQuiet

\* "Organize into trip folders": trip_folder = destination_base / trip_info['name'],
\* every photo of the trip is moved into it; then, in the run,
\* trips_detected = len(set(photo.parent for photo in organized_photos))
OrganizeTrips ==
    /\ seg_pc = "done"
    /\ org_pc = "group"
    /\ trip_folders' = [t \in 1..Len(trips) |-> get_trip_info(trips[t])]
    /\ org_files' = Range(Moves(trips))
    /\ org_trips_detected' = IF org_files' # {}
                             THEN Cardinality({p[1] : p \in org_files'})
                             ELSE org_trips_detected
    /\ org_pc' = "done"
    /\ UNCHANGED <<segvars, syncvars, stagervars, ledgervars, scanvars, namevars, smartvars,
                   daemonvars>>

OrgNext == SegStep \/ SegFinish \/ OrganizeTrips

OrgSpec == OrgInit /\ [][OrgNext]_vars

\* ------------------------------------------------------- device selection
DeviceNames == {"Calvin", "Backup", "Other"}

Configured == Range(source_devices)

\* find_source_device: a configured name gives that device's path or None;
\* any other name, like no name, goes on to the first configured device
\* whose path exists
find_source_device(name) ==
    IF name # "None" /\ name \in Configured
    THEN IF name \in connected THEN name ELSE "None"
    ELSE LET found == {k \in 1..Len(source_devices) : source_devices[k] \in connected}
         IN IF found = {} THEN "None" ELSE source_devices[Min(found)]

\* config['source_devices'] with at most two devices, in either order
DeviceConfigs ==
    {<<>>} \cup {<<a>> : a \in DeviceNames}
           \cup {p \in DeviceNames \X DeviceNames : p[1] # p[2]}

DeviceInit ==
    /\ source_devices \in DeviceConfigs
    /\ connected \in SUBSET Range(source_devices)
    /\ device_name \in DeviceNames \cup {"None"}
    /\ source_path = "unset"
    /\ known_devices = {}
    /\ last_sync_times = NoHistory
    /\ sync_history_file = NoHistory
    /\ now = 0
    /\ new_devices = <<>>
    /\ start_time = 0
    /\ old_time = {}
    /\ sync_result = "none"
    /\ mode = "run"
    /\ daemon_pc = "find"
    /\ config \in {c \in SyncConfigs : c.min_photos_per_trip = 1}
    /\ SegIdle
    /\ StagerIdle
    /\ LedgerIdle
    /\ ScanIdle
    /\ NameIdle
    /\ SmartIdle
    /\ OrgIdle
    /\ SyncQuiet

\* run_optimized_sync(device_name), "Find source device": the run goes on with
\* source_path, or returns False when it is None
FindSourceDevice ==
    /\ mode = "run"
    /\ daemon_pc = "find"
    /\ source_path' = find_source_device(device_name)
    /\ daemon_pc' = "exit"
    /\ UNCHANGED <<source_devices, connected, device_name, known_devices, last_sync_times,
                   sync_history_file, now, new_devices, start_time, old_time, sync_result,
                   mode, segvars, syncvars, stagervars, ledgervars, scanvars, namevars,
                   smartvars, orgvars>>

DeviceNext == FindSourceDevice

DeviceSpec == DeviceInit /\ [][DeviceNext]_vars

\* ------------------------------------------------------------- the daemon
\* config['source_devices'] of the daemon: one or two devices
DaemonConfigs == {c \in DeviceConfigs : c # <<>> /\ Range(c) \subseteq {"Calvin", "Backup"}}

\* the start times a history file holds when the daemon starts at now = 0:
\* a sync that began an hour ago, and one that began half an hour ago
PastSyncs == {0 - Hour, 0 - 1}
Histories(devices) == UNION {[S -> PastSyncs] : S \in SUBSET devices}

\* should_sync_device, with the test total_seconds() < 3600 as a parameter
should_sync_device_Always(device) == TRUE

should_sync_device(device) ==
    ~(device \in DOMAIN last_sync_times /\ now - last_sync_times[device] < Hour)

\* list(new_devices): the elements of a set in any order
Listed(S) ==
    {l \in [1..Cardinality(S) -> S] : \A a, b \in DOMAIN l : a # b => l[a] # l[b]}

\* del d[key] and d[key] = value on the history dict
Without(history, device) == [d \in DOMAIN history \ {device} |-> history[d]]

\* main() up to the call of start_monitoring or to the --force-sync branch,
\* with __init__: known_devices is what is connected, the history is loaded
DaemonInit ==
    /\ source_devices \in DaemonConfigs
    /\ connected \in SUBSET Range(source_devices)
    /\ known_devices = connected
    /\ sync_history_file \in Histories(Range(source_devices))
    /\ last_sync_times = sync_history_file
    /\ now = 0
    /\ new_devices = <<>>
    /\ start_time = 0
    /\ old_time = {}
    /\ sync_result = "none"
    /\ source_path = "unset"
    /\ mode \in {"monitor", "force-sync"}
    /\ device_name \in IF mode = "force-sync" THEN DeviceNames ELSE {"None"}
    /\ daemon_pc = IF mode = "force-sync" THEN "force" ELSE "check"
    /\ config \in {c \in SyncConfigs : c.min_photos_per_trip = 1}
    /\ SegIdle
    /\ StagerIdle
    /\ LedgerIdle
    /\ ScanIdle
    /\ NameIdle
    /\ SmartIdle
    /\ OrgIdle
    /\ SyncQuiet

DaemonRest == <<segvars, syncvars, stagervars, ledgervars, scanvars, namevars, smartvars,
                orgvars, source_devices, mode>>

\* check_for_new_devices, then the loop of start_monitoring begins or is empty
CheckForNewDevices ==
    /\ daemon_pc = "check"
    /\ LET current_devices == connected
           found == current_devices \ known_devices
       IN  /\ known_devices' = current_devices
           /\ new_devices' \in Listed(found)
           /\ daemon_pc' = IF found = {} THEN "sleep" ELSE "visit"
    /\ UNCHANGED <<DaemonRest, connected, device_name, source_path, last_sync_times,
                   sync_history_file, now, start_time, old_time, sync_result>>

\* what follows a run_sync_for_device call of the monitoring loop
AfterVisit == IF Tail(new_devices) = <<>> THEN "sleep" ELSE "visit"

\* run_sync_for_device: if not self.should_sync_device(device_name): return True
SkipDevice ==
    /\ daemon_pc = "visit"
    /\ ~should_sync_device(Head(new_devices))
    /\ sync_result' = "True"
    /\ new_devices' = Tail(new_devices)
    /\ daemon_pc' = AfterVisit
    /\ UNCHANGED <<DaemonRest, connected, device_name, source_path, known_devices,
                   last_sync_times, sync_history_file, now, start_time, old_time>>

\* run_sync_for_device: start_time = datetime.now(), the pipeline run begins
\* and looks for its source device
StartSync ==
    /\ daemon_pc = "visit"
    /\ should_sync_device(Head(new_devices))
    /\ device_name' = Head(new_devices)
    /\ start_time' = now
    /\ source_path' = find_source_device(device_name')
    /\ daemon_pc' = "run"
    /\ UNCHANGED <<DaemonRest, connected, known_devices, last_sync_times, sync_history_file,
                   now, new_devices, old_time, sync_result>>

\* run_optimized_sync returns (False without a source device, an exception
\* counts as False); on success the start time is recorded and saved.  After
\* a failed --force-sync main() puts old_time back.
SyncReturns ==
    /\ daemon_pc = "run"
    /\ \E success \in IF source_path = "None" THEN {FALSE} ELSE BOOLEAN :
        /\ sync_result' = IF success THEN "True" ELSE "False"
        /\ last_sync_times' =
              IF success THEN Put(last_sync_times, device_name, start_time)
              ELSE IF mode = "force-sync" /\ old_time # {}
                   THEN Put(last_sync_times, device_name, CHOOSE t \in old_time : TRUE)
              ELSE last_sync_times
        /\ sync_history_file' = IF success THEN last_sync_times' ELSE sync_history_file
    /\ IF mode = "monitor"
       THEN /\ new_devices' = Tail(new_devices)
            /\ daemon_pc' = AfterVisit
       ELSE /\ new_devices' = new_devices
            /\ daemon_pc' = "exit"
    /\ UNCHANGED <<DaemonRest, connected, device_name, source_path, known_devices, now,
                   start_time, old_time>>

\* time.sleep(check_interval)
Sleep ==
    /\ daemon_pc = "sleep"
    /\ daemon_pc' = "check"
    /\ UNCHANGED <<DaemonRest, connected, device_name, source_path, known_devices,
                   last_sync_times, sync_history_file, now, new_devices, start_time,
                   old_time, sync_result>>

\* main(), --force-sync DEVICE: the device's entry is taken out of the
\* history and run_sync_for_device is called; an unknown device is refused
ForceSync ==
    /\ daemon_pc = "force"
    /\ IF device_name \in Configured
       THEN /\ old_time' = IF device_name \in DOMAIN last_sync_times
                           THEN {last_sync_times[device_name]} ELSE {}
            /\ last_sync_times' = Without(last_sync_times, device_name)
            /\ start_time' = now
            /\ source_path' = find_source_device(device_name)
            /\ daemon_pc' = "run"
       ELSE /\ daemon_pc' = "exit"
            /\ UNCHANGED <<old_time, last_sync_times, start_time, source_path>>
    /\ UNCHANGED <<DaemonRest, connected, device_name, known_devices, sync_history_file,
                   now, new_devices, sync_result>>

DaemonStep == CheckForNewDevices \/ SkipDevice \/ StartSync \/ SyncReturns \/ Sleep \/ ForceSync

\* the world: a configured device is plugged in or removed, the clock advances
Connect ==
    /\ \E d \in Configured \ connected : connected' = connected \cup {d}
    /\ UNCHANGED <<DaemonRest, device_name, source_path, known_devices, last_sync_times,
                   sync_history_file, now, new_devices, start_time, old_time, sync_result,
                   daemon_pc>>

Disconnect ==
    /\ \E d \in connected : connected' = connected \ {d}
    /\ UNCHANGED <<DaemonRest, device_name, source_path, known_devices, last_sync_times,
                   sync_history_file, now, new_devices, start_time, old_time, sync_result,
                   daemon_pc>>

Tick ==
    /\ now < MaxClock
    /\ now' = now + 1
    /\ UNCHANGED <<DaemonRest, connected, device_name, source_path, known_devices,
                   last_sync_times, sync_history_file, new_devices, start_time, old_time,
                   sync_result, daemon_pc>>

DaemonNext == DaemonStep \/ Connect \/ Disconnect \/ Tick

DaemonSpec == DaemonInit /\ [][DaemonNext]_vars

\* the daemon's loop keeps running
FairDaemonSpec == DaemonSpec /\ WF_vars(DaemonStep)

\* ------------------------------------------------------ segmenter claims
Gap(k) == photos_metadata[k].datetime - photos_metadata[k - 1].datetime

\* the groups built so far: the finalized trips and the accumulator
Groups == {trips[t].photos : t \in 1..Len(trips)} \cup {current_trip}

Together(a, b) == \E g \in Groups : a \in Paths(g) /\ b \in Paths(g)

Returned(a) == \E t \in 1..Len(trips) : a \in Paths(trips[t].photos)

\* the loop is about to process record i
AtStep == seg_pc = "loop" /\ photos_metadata # <<>> /\ i <= Len(photos_metadata)

MidGap == Gap(i) > short_gap_hours /\ ~(Gap(i) > long_gap_days * 24)

StartsNewTrip == current_trip' = <<photos_metadata[i]>>

ExtendsTrip == current_trip' = Append(current_trip, photos_metadata[i])

\* C6: two consecutive records more than long_gap_days apart are never in the
\* same trip (finalized or accumulating), whatever their GPS data and whether
\* GPS clustering is enabled.
C6_LongGapAlwaysSplits ==
    \A k \in 2..Len(photos_metadata) :
        (k < i /\ Gap(k) > long_gap_days * 24) => ~Together(k - 1, k)

\* C6 witness: clustering enabled, two records at the same coordinate more
\* than long_gap_days apart, and both returned, in different trips.
C6_Witness ==
    /\ seg_pc = "done"
    /\ config.gps_enabled
    /\ \E k \in 2..Len(photos_metadata) :
          /\ Gap(k) > long_gap_days * 24
          /\ HasGps(photos_metadata[k])
          /\ photos_metadata[k].gps = photos_metadata[k - 1].gps
          /\ Returned(k - 1) /\ Returned(k)

\* C7: every returned trip holds at least min_photos_per_trip records, and the
\* records of a dropped accumulator appear in no returned trip.
C7_MinPhotosPerTrip ==
    /\ \A t \in 1..Len(trips) : Len(trips[t].photos) >= config.min_photos_per_trip
    /\ \A a \in dropped : ~Returned(a)

\* C7 witness: a run that dropped an accumulator and returned a trip.
C7_Witness ==
    /\ seg_pc = "done"
    /\ dropped # {}
    /\ trips # <<>>

\* C8 as claimed: gap above short_gap_hours and not above long_gap_days,
\* clustering enabled, fewer than min_location_photos geotagged records in the
\* current trip: the later record starts a new trip.
C8_FewGeotagsSplit ==
    [][(/\ AtStep /\ MidGap
        /\ config.gps_enabled
        /\ Len(GpsCoords(current_trip)) < config.min_location_photos)
       => StartsNewTrip]_vars

\* C9 as claimed: gap above short_gap_hours and not above long_gap_days,
\* clustering enabled, at least min_location_photos geotagged records in the
\* current trip, later record without GPS: the later record starts a new trip.
C9_NoGpsSplits ==
    [][(/\ AtStep /\ MidGap
        /\ config.gps_enabled
        /\ Len(GpsCoords(current_trip)) >= config.min_location_photos
        /\ ~HasGps(photos_metadata[i]))
       => StartsNewTrip]_vars

\* the centroid of the current trip's geotagged records
Centroid ==
    TripCenter([k \in 1..Len(GpsCoords(current_trip)) |-> GpsCoords(current_trip)[k].gps])

\* the step rule of C10: within the radius of the centroid extends, farther splits
C10_StepRule ==
    [][(/\ AtStep /\ MidGap
        /\ config.gps_enabled
        /\ Len(GpsCoords(current_trip)) >= config.min_location_photos
        /\ HasGps(photos_metadata[i]))
       => IF calculate_distance_km(Centroid, photos_metadata[i].gps) > cluster_radius_km * 1000
          THEN StartsNewTrip
          ELSE ExtendsTrip]_vars

\* all records geotagged and pairwise within cluster_radius_km, no gap above
\* long_gap_days
IsCluster ==
    /\ \A k \in 1..Len(photos_metadata) : HasGps(photos_metadata[k])
    /\ \A a, b \in 1..Len(photos_metadata) :
          calculate_distance_km(photos_metadata[a].gps, photos_metadata[b].gps)
              <= cluster_radius_km * 1000
    /\ \A k \in 2..Len(photos_metadata) : ~(Gap(k) > long_gap_days * 24)

\* the consequence C10 draws: such a cluster stays in one trip
C10_ClusterStaysTogether ==
    (seg_pc = "done" /\ config.gps_enabled /\ IsCluster)
        => \A a, b \in 1..Len(photos_metadata) : Together(a, b)

\* C10 as claimed: the step rule, and so a cluster of photos all within the
\* radius of each other stays in one trip.
C10_ClusterRule == C10_StepRule /\ []C10_ClusterStaysTogether

\* C11: two consecutive records at most short_gap_hours apart never have a
\* trip boundary between them: every group holds both or neither, and they
\* are dropped together or not at all, whatever their GPS data and dates.
C11_ShortGapNeverSplits ==
    \A k \in 2..Len(photos_metadata) :
        (k < i /\ Gap(k) <= short_gap_hours)
        => /\ \A g \in Groups : (k - 1) \in Paths(g) <=> k \in Paths(g)
           /\ (k - 1) \in dropped <=> k \in dropped

\* C11 witness: clustering enabled, two records short_gap_hours apart on
\* different calendar days and farther apart than cluster_radius_km, returned
\* in the same trip.
C11_Witness ==
    /\ seg_pc = "done"
    /\ config.gps_enabled
    /\ \E k \in 2..Len(photos_metadata) :
          /\ Gap(k) <= short_gap_hours
          /\ photos_metadata[k].datetime \div 24 # photos_metadata[k - 1].datetime \div 24
          /\ calculate_distance_km(photos_metadata[k - 1].gps, photos_metadata[k].gps)
                 > cluster_radius_km * 1000
          /\ HasGps(photos_metadata[k]) /\ HasGps(photos_metadata[k - 1])
          /\ \E t \in 1..Len(trips) : {k - 1, k} \subseteq Paths(trips[t].photos)

\* ------------------------------------------------------- pipeline claims
UploadErrors == {"Immich upload failed", "Immich CLI not found"}

\* C1: a non-dry run that starts with empty staging, finds eligible files on
\* the source, places every staged file into a trip and uploads successfully
\* ends with an empty error list and returns success.
C1_CleanRunSucceeds ==
    (/\ pc = "returned"
     /\ ~dry_run
     /\ start_staging = {}
     /\ source_files # {}
     /\ copied_files = source_files
     /\ Names(Range(organized_photos)) = copied_files
     /\ staging = {}
     /\ upload_success = "True")
    => (stats.errors = <<>> /\ result = "True")

\* C2: in a non-dry run whose upload failed, an error is recorded, Archive is
\* not executed, and every organized file is where Organize put it under New
\* Photos.
C2_FailedUploadKeepsFiles ==
    (~dry_run /\ upload_success = "False")
    => /\ \E k \in 1..Len(stats.errors) : stats.errors[k].kind \in UploadErrors
       /\ "Archive" \notin executed
       /\ pc # "archive"
       /\ Range(organized_photos) \subseteq new_photos

\* C2 witness: a non-dry run returned after its upload of organized files failed.
C2_Witness ==
    /\ pc = "returned"
    /\ ~dry_run
    /\ upload_success = "False"
    /\ organized_photos # <<>>

\* C3 as claimed: the run returns success iff its error list is empty, on
\* every path, the early returns included.
C3_SuccessIffNoErrors ==
    pc = "returned" => (result = "True" <=> stats.errors = <<>>)

\* C3 amended: the run returns success iff its error list is empty and neither
\* fatal condition (no device, no destination) stopped it; the fatal early
\* returns give failure with an empty error list.
C3_SuccessIffNoErrorsUnlessFatal ==
    pc = "returned"
    => (result = "True" <=> (stats.errors = <<>> /\ device_ok /\ destination_ok))

\* C3 witness: a run stopped by a fatal condition returned failure with an
\* empty error list.
C3_Witness ==
    /\ pc = "returned"
    /\ ~(device_ok /\ destination_ok)
    /\ result = "False"
    /\ stats.errors = <<>>

\* the current run has passed the fatal checks and the resume check
PastResumeCheck ==
    /\ device_ok /\ destination_ok
    /\ \/ pc \notin {"init", "start", "killed"}
       \/ pc = "killed" /\ killed_in # "start"

\* C4: a non-dry run that starts with media in staging does not execute Copy
\* and organizes the files already in staging; a dry run, or a run that
\* starts with no media in staging, executes Copy.
C4_ResumeSkipsCopy ==
    PastResumeCheck
    => IF ~dry_run /\ start_staging # {}
       THEN /\ "Copy" \notin executed
            /\ copied_files = {} /\ total_copied = 0
            /\ pc = "organize" => ExistingPhotos = start_staging
       ELSE "Copy" \in executed

\* C4 witness: a non-dry run resumed over staged files and is organizing them.
C4_Witness ==
    /\ pc = "organizing"
    /\ ~dry_run
    /\ start_staging # {}
    /\ "Copy" \notin executed

\* from here on every run finds the device and the destination, is not a dry
\* run and is not interrupted
RunsComplete == device_ok /\ destination_ok /\ ~dry_run /\ pc # "killed"

\* C5 as claimed: after a run was interrupted during Copy, the following
\* complete runs eventually stage every eligible source file.
C5_InterruptedCopyRecovers ==
    []((pc = "start" /\ killed_in = "copy" /\ []RunsComplete)
       => <>(source_files \subseteq ever_staged))

\* ---------------------------------------------------------- stager claims
\* one photo_file of the loop has been processed by this step
Processed ==
    /\ stager_pc = "loop"
    /\ <<dir_idx, batch_i, batch_k, stager_pc>>' # <<dir_idx, batch_i, batch_k, stager_pc>>

\* n of the first free name <stem>_<n>, n = 1, 2, ...
FirstFree(stg, stem) ==
    CHOOSE n \in 1..(Cardinality(DOMAIN stg) + 1) :
        /\ Suffixed(stem, n) \notin DOMAIN stg
        /\ \A m \in 1..(n - 1) : Suffixed(stem, m) \in DOMAIN stg

\* no file already in staging is overwritten or removed by the step
NoOverwrite ==
    \A n \in DOMAIN staging_path :
        n \in DOMAIN staging_path' /\ staging_path'[n] = staging_path[n]

\* C12: in a non-dry copy, a source file whose name exists in
\* staging is skipped and not counted when the sizes are equal, and is
\* otherwise copied under the first free name <stem>_<n>; no staged file is
\* overwritten.
C12_DedupAtName ==
    [][(Processed /\ ~stager_dry_run /\ current_file.stem \in DOMAIN staging_path)
       => /\ NoOverwrite
          /\ IF staging_path[current_file.stem] = current_file.size
             THEN /\ staging_path' = staging_path
                  /\ stager_total_copied' = stager_total_copied
             ELSE /\ stager_total_copied' = stager_total_copied + 1
                  /\ DOMAIN staging_path' = DOMAIN staging_path
                        \cup {Suffixed(current_file.stem,
                                       FirstFree(staging_path, current_file.stem))}
      ]_vars

\* C13: given a maximum count N, the stager never copies or reports more
\* than N files.
C13_MaxPhotosBound ==
    max_photos # 0
    => /\ stager_total_copied <= max_photos
       /\ Len(stager_copied_files) <= max_photos
       /\ Cardinality(DOMAIN staging_path) <= max_photos

\* -------------------------------------------------------- manifest claims
\* C14: a manifest recorded for a set of files and verified against the same
\* files in an unchanged directory reports no missing file, no extra file
\* and returns ok.
C14_ManifestRoundTrip ==
    (ledger_pc = "done" /\ manifest_file.exists /\ directory = recorded)
    => /\ verify_result = "True"
       /\ Missing = {}
       /\ Extra = {}

\* C15: every mismatch that verification finds, a file of the manifest
\* missing from the directory or a file of the directory absent from the
\* manifest, adds at least one entry to the error list.
C15_MismatchesAreErrors ==
    (ledger_pc = "done" /\ manifest_file.exists /\ (Missing # {} \/ Extra # {}))
    => /\ Missing # {} => \E e \in ledger_errors : e.arg \in Missing
       /\ Extra # {} => \E e \in ledger_errors : e.arg \in Extra

\* ------------------------------------------------- pipeline claims, C16 on
\* the files the Organize phase of the current run found in staging
FoundInStaging == start_staging \cup copied_files

\* C16: a non-dry run whose staged files form no group of at least
\* min_photos_per_trip files returns with zero trips, every file still in
\* staging, Upload and Archive not executed, and an error entry counting the
\* files left unprocessed.
C16_NoTripsLeavesStaging ==
    (/\ pc = "returned"
     /\ ~dry_run
     /\ "Organize" \in executed
     /\ FoundInStaging # {}
     /\ group_photos_by_enhanced_trips(config, SortByDatetime(FoundInStaging)) = <<>>)
    => /\ stats.trips_detected = 0
       /\ organized_photos = <<>>
       /\ staging = FoundInStaging
       /\ "Upload" \notin executed
       /\ "Archive" \notin executed
       /\ ~tool_invoked
       /\ \E k \in 1..Len(stats.errors) :
             stats.errors[k] = Err("files not processed from staging",
                                   Cardinality(FoundInStaging))
       /\ result = "False"

\* C16 witness: a non-dry run over staged files that form no trip has returned.
C16_Witness ==
    /\ pc = "returned"
    /\ ~dry_run
    /\ "Organize" \in executed
    /\ Cardinality(FoundInStaging) = 2
    /\ config.min_photos_per_trip = 2
    /\ staging = FoundInStaging
    /\ stats.trips_detected = 0

\* a run is between its start and its end
Running == pc \notin {"init", "returned", "raised", "killed"}

\* everything under the destination root
DestinationRoot ==
    <<staging_exists, staging, staging_manifest, new_photos, upload_manifest,
      uploaded_photos, archive_manifest>>

\* C17: no step of a dry run creates, moves, overwrites or deletes anything
\* under the destination root, and a dry run never starts the upload tool.
C17_DryRunChangesNothing ==
    [][(dry_run /\ Running) => (DestinationRoot' = DestinationRoot /\ ~tool_invoked')]_vars

\* C17 witness: a dry run over files left in staging by an earlier run went
\* through Organize and Upload and has returned.
C17_Witness ==
    /\ pc = "returned"
    /\ dry_run
    /\ staging # {}
    /\ organized_photos # <<>>
    /\ {"Copy", "Organize", "Upload"} \subseteq executed

\* C18: a dry run over an empty staging directory reports what a real run
\* over the same source would do: the same number of files staged and the
\* same trips, with the same names and members.
C18_DryRunSameDecisions ==
    (/\ pc = "returned"
     /\ dry_run
     /\ "Organize" \in executed
     /\ ExistingPhotos = {})
    => LET real == Moves(group_photos_by_enhanced_trips(config, SortByDatetime(source_files)))
       IN  /\ stats.photos_copied = Cardinality(source_files)
           /\ organized_photos = real
           /\ stats.photos_organized = Len(real)
           /\ stats.trips_detected = Cardinality({p[1] : p \in Range(real)})

\* C19: with no source device reachable or no destination root, the run's
\* next step ends it: nothing under the destination root changes, no phase
\* is entered, the upload tool is not started, and the run returns failure.
C19_FatalStopsBeforeCopy ==
    [][(pc = "start" /\ ~(device_ok /\ destination_ok))
       => /\ pc' \in {"returned", "killed"}
          /\ DestinationRoot' = DestinationRoot
          /\ executed' = {}
          /\ ~tool_invoked'
          /\ stats' = NewStats
          /\ pc' = "returned" => result' = "False"
      ]_vars

\* C19 witness: a run that found the device but no destination root has
\* returned, with eligible files on the source.
C19_Witness ==
    /\ pc = "returned"
    /\ device_ok
    /\ ~destination_ok
    /\ source_files # {}
    /\ executed = {}
    /\ result = "False"

\* C20: every run has emitted its summary report (report_results) when it
\* returns, the runs stopped early by a fatal condition included.
C20_EveryRunReports == pc = "returned" => reported

\* -------------------------------------------------------- failure claims
\* the current run has ended, by a return or by an exception
Ended == pc \in {"returned", "raised"}

\* C21: a failure inside a component during a run is in the run's error list
\* when the run ends, and no such failure leaves run_optimized_sync as an
\* exception.
C21_FailuresAccumulate ==
    (Ended /\ failed \ {"notify"} # {})
    => /\ stats.errors # <<>>
       /\ pc = "raised" => "notify" \in failed

\* C22: a notification that cannot be delivered never ends the run by an
\* exception and leaves the run's result as it is with a working notifier.
C22_NotifyFailureSwallowed ==
    /\ "notify" \notin failed
    /\ (Ended /\ notifier # "ok" /\ failed = {})
       => /\ pc = "returned"
          /\ result = IF ~(device_ok /\ destination_ok) THEN "False"
                      ELSE ReturnValue(stats.errors)

\* ------------------------------------------------------ discovery claims
Parent(d) == CHOOSE p \in Dirs : d \in Range(SubdirsOf(p))
WasListed(d) == \E a \in 1..3 : <<d, a>> \in listed

\* the scan came to the directory: it is the root or its parent was listed
RECURSIVE Reached(_)
Reached(d) == d = 0 \/ (WasListed(Parent(d)) /\ Reached(Parent(d)))

HasPhotos(d) == \E f \in dir_files[d] : HasPhotoSuffix(f)

\* C23: a directory's listing is attempted at most 3 times; a listing that
\* succeeds, on whichever attempt, is processed normally; a directory is
\* recorded as skipped exactly after three failed listings, and the scan
\* still returns every photo directory of the rest of the tree.
C23_RetryThenSkip ==
    /\ \A d \in Dirs : attempts_made[d] <= 3
    /\ \A d \in Dirs : d \in Range(skipped_dirs) => (attempts_made[d] = 3 /\ ~WasListed(d))
    /\ scan_pc = "done"
       => \A d \in Dirs :
             /\ Reached(d) => (WasListed(d) \/ d \in Range(skipped_dirs))
             /\ d \in Range(found_photo_dirs) <=> (Reached(d) /\ WasListed(d) /\ HasPhotos(d))

\* C23 witness: the scan has returned; directory 1 was skipped after three
\* failures, and directory 2, listed on its third attempt, is among the
\* photo directories returned.
C23_Witness ==
    /\ scan_pc = "done"
    /\ 1 \in Range(skipped_dirs)
    /\ <<2, 3>> \in listed
    /\ 2 \in Range(found_photo_dirs)
    /\ <<0, 2>> \in listed

\* C24: every directory returned by discovery holds at least one file that
\* is eligible by the stager's rule.
C24_ReturnedDirsHoldEligible ==
    \A k \in 1..Len(found_photo_dirs) : \E f \in dir_files[found_photo_dirs[k]] : Eligible(f)

\* ------------------------------------------------ pipeline claims, C25 on
\* C25: with no run interrupted, the files still in New Photos, left there by
\* a run whose upload failed, are in the list a later non-dry run hands to
\* the upload tool, and none is left there once that upload has succeeded.
C25_FailedUploadRetried ==
    (pc = "returned" /\ ~dry_run /\ "Organize" \in executed /\ kills = 0)
    => /\ new_photos \subseteq Range(organized_photos)
       /\ upload_success = "True" => new_photos = {}

\* C26: the staging directory is removed only by the cleanup of a non-dry
\* run that finds no media file in it; it is left in place when a manifest
\* file remains, and never removed while it holds a media file.
C26_StagingRemovedOnlyWhenDrained ==
    [][/\ (staging_exists /\ ~staging_exists')
          => (pc = "final" /\ ~dry_run /\ staging = {} /\ ~staging_manifest.exists)
       /\ (staging_exists /\ (staging # {} \/ staging_manifest.exists))
          => staging_exists'
      ]_vars

\* C26 witness: the cleanup of a non-dry run that found files in staging at
\* its start has removed the drained staging directory.
C26_Witness ==
    /\ pc = "report"
    /\ ~dry_run
    /\ start_staging # {}
    /\ "Cleanup" \in executed
    /\ ~staging_exists

Ascending(seq) == \A k \in 1..(Len(seq) - 1) : seq[k] < seq[k + 1]

\* C28: the entries of every manifest the pipeline writes (staging, upload
\* and archive) appear in ascending order of filename.
C28_ManifestsSortedByName ==
    \A m \in {staging_manifest, upload_manifest, archive_manifest} :
        m.exists => Ascending(m.entries)

\* the scanned eligible source files whose name, compared without regard to
\* case, is neither under Uploaded Photos nor in the archive manifest
NotYetUploaded ==
    {p \in Range(smart_walk) :
        /\ Eligible(p[2])
        /\ \A n \in smart_uploaded \cup {l.name : l \in smart_manifest} :
               Upper(n) # Upper(p[2])}

\* C29: smart sync copies to staging exactly the scanned eligible source
\* files whose name is found, case-insensitively, neither under Uploaded
\* Photos nor in the archive manifest; a dry run copies nothing and creates
\* no staging directory.
C29_CopiesExactlyTheMissing ==
    (smart_pc = "done" /\ smart_result = "True")
    => IF smart_dry_run
       THEN smart_staging = [exists |-> FALSE, files |-> {}]
       ELSE {f[2] : f \in smart_staging.files} = NotYetUploaded

\* the phase a position of the run belongs to, in the order of the run
PhaseRank(at) ==
    CASE at = "start" -> 0
      [] at = "copy" -> 1
      [] at \in {"organize", "organizing", "verify"} -> 2
      [] at = "upload" -> 3
      [] at = "archive" -> 4
      [] at = "final" -> 5
      [] OTHER -> 6

PhaseNumber(phase) ==
    CASE phase = "Copy" -> 1
      [] phase = "Organize" -> 2
      [] phase = "Upload" -> 3
      [] phase = "Archive" -> 4
      [] phase = "Cleanup" -> 5

\* C30: within one run the phases execute in the order Copy, Organize,
\* Upload, Archive, Cleanup, each at most once and never going back; Archive
\* is executed only after Upload returned success in the same non-dry run,
\* and Cleanup follows Upload whether or not it succeeded.
C30_PhasesInOrder ==
    [][/\ (Running /\ pc' # "killed") => PhaseRank(pc') >= PhaseRank(pc)
       /\ (executed' # executed /\ executed' # {})
          => \E phase \in executed' \ executed :
                /\ executed' = executed \cup {phase}
                /\ \A earlier \in executed : PhaseNumber(earlier) < PhaseNumber(phase)
       /\ (pc' = "archive" /\ pc # "archive")
          => /\ pc = "upload"
             /\ upload_success' = "True"
             /\ ~dry_run
       /\ "Archive" \in executed' \ executed
          => "Upload" \in executed /\ upload_success = "True" /\ ~dry_run
       /\ (pc = "upload" /\ pc' \notin {"upload", "killed"})
          => pc' = IF upload_success' = "True" /\ ~dry_run THEN "archive" ELSE "final"
       /\ ("Upload" \in executed' /\ PhaseRank(pc') = 6 /\ pc' # "killed")
          => "Cleanup" \in executed'
      ]_vars

\* C30 witness: a non-dry run that went through all five phases and returned.
C30_Witness ==
    /\ pc = "returned"
    /\ ~dry_run
    /\ executed = {"Copy", "Organize", "Upload", "Archive", "Cleanup"}

\* C31: a file left in staging by a completed run does not stop later runs
\* from copying: when every later run is a complete non-dry run, every
\* eligible file on the source is eventually staged.
C31_LeftoverDoesNotBlockCopy ==
    []((pc = "returned" /\ staging # {} /\ []RunsComplete)
       => <>[](source_files \subseteq ever_staged))

\* C32: a move of Organize or Archive never replaces a file that already
\* exists at its destination path under New Photos or Uploaded Photos.
C32_MoveNeverReplaces ==
    [][/\ (pc = "organizing" /\ organize_todo # <<>> /\ organize_todo' = Tail(organize_todo))
          => Head(organize_todo) \notin new_photos
       /\ "Archive" \in executed' \ executed
          => Range(organized_photos) \cap uploaded_photos = {}
      ]_vars

\* C33: at the end of an uninterrupted non-dry run every file that was placed
\* in staging is under New Photos, under Uploaded Photos or still in
\* staging, a file still in staging was not organized by the run, and the
\* files still in staging are counted in the run's "files not processed from
\* staging" error.
C33_StagedFilesAccounted ==
    (pc = "returned" /\ ~dry_run /\ "Cleanup" \in executed)
    => /\ \A f \in ever_staged :
             /\ f \in staging \cup Names(new_photos) \cup Names(uploaded_photos)
             /\ ~(f \in staging /\ f \in Names(Range(organized_photos)))
       /\ staging # {}
          => Err("files not processed from staging", Cardinality(staging))
                 \in Range(stats.errors)

\* C34: distinct trips of one segmentation are organized into distinct
\* folders, so the recorded number of trips detected equals the number of
\* trips the segmenter returned.
C34_DistinctTripsDistinctFolders ==
    org_pc = "done"
    => /\ \A a, b \in 1..Len(trips) : a # b => trip_folders[a] # trip_folders[b]
       /\ org_trips_detected = Len(trips)

\* the positions in the time-sorted input of the records of a trip
Positions(photos) == [k \in 1..Len(photos) |-> photos[k].path]

\* C35: the returned trips are pairwise disjoint, each is a contiguous run of
\* the time-sorted input in ascending capture-time order, the trips appear in
\* chronological order, and the only input records absent from the output
\* are those of dropped under-threshold accumulators.
C35_TripsPartitionInput ==
    seg_pc = "done"
    => /\ \A t \in 1..Len(trips) :
             LET photos == trips[t].photos
             IN  /\ photos # <<>>
                 /\ \A k \in 1..Len(photos) :
                       /\ photos[k] = photos_metadata[photos[k].path]
                       /\ k > 1 => /\ photos[k].path = photos[k - 1].path + 1
                                   /\ photos[k].datetime >= photos[k - 1].datetime
       /\ \A a, b \in 1..Len(trips) :
             a < b => Positions(trips[a].photos)[Len(trips[a].photos)]
                          < Positions(trips[b].photos)[1]
       /\ (1..Len(photos_metadata)) \ UNION {Paths(trips[t].photos) : t \in 1..Len(trips)}
              = dropped

\* C35 witness: a segmentation that returned two trips, the later one of
\* several records.
C35_Witness ==
    /\ seg_pc = "done"
    /\ Len(trips) = 2
    /\ Len(trips[2].photos) >= 2

\* C36: when a run was interrupted during Organize with planned moves left,
\* the resume of a later run plans, for each file still in staging, the move
\* into the same trip folder.
C36_ResumeSameFolders ==
    (/\ pc = "organizing"
     /\ ~dry_run
     /\ "Copy" \notin executed
     /\ organized_photos = <<>>
     /\ killed_in = "organizing")
    => \A move \in Range(killed_todo) :
          move[2] \in staging => move \in Range(organize_todo)

\* ---------------------------------------------------------- device claims
\* C37: when a device name is passed to the run, the run reads from that
\* device's configured path or aborts; it never goes on with another device.
C37_OnlyTheNamedDevice ==
    (daemon_pc = "exit" /\ mode = "run" /\ device_name # "None")
        => source_path \in {"None", device_name}

\* ------------------------------------------------- smart sync claims, C38
\* C38: a file listed in the archive manifest that Archive writes is taken by
\* smart sync as uploaded and is not copied again, also when it is no longer
\* under Uploaded Photos.
C38_ArchivedNotCopiedAgain ==
    (smart_pc = "done" /\ smart_result = "True")
    => \A f \in smart_staging.files :
           \A n \in archive_written : Upper(n) # Upper(f[2][2])

\* ---------------------------------------------------------- daemon claims
\* the pipeline run in progress began an hour or more after the start the
\* history file records for its device, if it records one
RunAfterAnHour ==
    daemon_pc = "run" =>
        (device_name \in DOMAIN sync_history_file
            => start_time - sync_history_file[device_name] >= Hour)

\* the history file gets a new time for a device only from a
\* run_sync_for_device call for that device that returns success, and the
\* time is that run's start
SetBySuccessfulRun ==
    \A d \in DeviceNames :
        (d \in DOMAIN sync_history_file'
         /\ (d \in DOMAIN sync_history_file => sync_history_file'[d] # sync_history_file[d]))
        => /\ daemon_pc = "run"
           /\ device_name = d
           /\ source_path = d
           /\ sync_result' = "True"
           /\ sync_history_file'[d] = start_time

\* C39 as stated: the daemon never starts a pipeline run for a device whose
\* last recorded successful sync started less than one hour earlier, and the
\* recorded last-sync time of a device is only ever set by a run for that
\* device that returned success.
C39_NoRunWithinTheHour == []RunAfterAnHour /\ [][SetBySuccessfulRun]_vars

\* C39, amended: the same for the monitoring daemon; a run asked for with
\* --force-sync starts whatever the history says, and it too records its
\* start only when it returns success.
C39_NoRunWithinTheHour_Monitoring ==
    /\ [](mode = "monitor" => (RunAfterAnHour /\ last_sync_times = sync_history_file))
    /\ [][SetBySuccessfulRun]_vars

\* a monitored device synced in this behaviour is being synced again
C39_Witness ==
    /\ mode = "monitor"
    /\ daemon_pc = "run"
    /\ device_name \in DOMAIN sync_history_file
    /\ sync_history_file[device_name] >= 0

\* C40: while the daemon monitors, a configured device that is connected,
\* stays connected and was not synced within the last hour eventually has a
\* pipeline run started for it; so has a device connected before the daemon
\* started, and one reconnected within the hour of its last sync.
C40_ConnectedDeviceIsSynced ==
    \A d \in {"Calvin", "Backup"} :
        [](( /\ mode = "monitor"
             /\ d \in connected
             /\ ~(d \in DOMAIN last_sync_times /\ now - last_sync_times[d] < Hour)
             /\ [](d \in connected) )
           => <>(daemon_pc = "run" /\ device_name = d))

=============================================================================
